---- MODULE Spec2Model ----
(***************************************************************************)
(* Model of the job-ingestion pipeline: the gateway (HTTP handlers, the    *)
(* in-memory status map and the broker consumer thread), the scraper       *)
(* worker, the loader worker, the four broker topics, the per-job data     *)
(* files and the jobs table.                                               *)
(*                                                                         *)
(* Python dicts are modelled as functions whose DOMAIN is the set of keys  *)
(* present, so dict.get(k, default), dict.update and "k in d" are modelled *)
(* by what they do.  Strings that the code splits, strips or lower-cases   *)
(* are sequences of one-character strings.  Percentages are integers in    *)
(* hundredths of a percent (4250 is 42.5), which is the resolution of      *)
(* round(x, 2).  The percentage of a kept listing is computed as the code  *)
(* computes it, in binary64 floats, before it is rounded.  Wall-clock      *)
(* timestamps are the token "ts".                                          *)
(*                                                                         *)
(* A worker blocks in every send until the broker answers, so a step of a  *)
(* worker ends with its next send at the latest; writing and removing a    *)
(* data file are steps of their own.                                       *)
(*                                                                         *)
(* The gateway's coroutines run on one event loop: a coroutine step runs   *)
(* from one suspension to the next, and a send on a socket is a call that  *)
(* suspends ("pending") and returns or raises in a later step.  The        *)
(* consumer thread is a thread of its own and interleaves with them        *)
(* between any two of its steps.                                           *)
(*                                                                         *)
(* Each broker topic is a FIFO queue of the records its single consumer    *)
(* group has not consumed yet (one partition: publish order is kept per    *)
(* topic, there is no order between topics).                               *)
(***************************************************************************)
EXTENDS Integers, Sequences, FiniteSets, TLC

\* ---------------------------------------------------------------- bounds
\* Number of job ids the gateway can generate in a run.
NumJobs == 1
\* Largest max_jobs a request asks for.
MaxJobsParam == 2
\* Largest job_id of a row the jobs table starts with.
MaxRowId == 2
\* Longest data file, in records.
MaxFileLen == 2
\* Most deliveries of the loading_requested of one job.
MaxDeliveries == 2
\* records waiting on job-status-updates when the gateway's consumer starts
MaxBacklog == 2
\* Most records of the workers that no broker acknowledges in a run.
MaxLostSends == 1

\* ------------------------------------------------------- program constants
SCRAPING_JOBS_TOPIC == "scraping-jobs"
JOB_STATUS_UPDATES_TOPIC == "job-status-updates"
DATA_PROCESSING_TOPIC == "data-processing"
SYSTEM_NOTIFICATIONS_TOPIC == "system-notifications"
CONSUMER_TOPICS == {JOB_STATUS_UPDATES_TOPIC, SYSTEM_NOTIFICATIONS_TOPIC}
Topics ==
  {SCRAPING_JOBS_TOPIC, JOB_STATUS_UPDATES_TOPIC, DATA_PROCESSING_TOPIC,
   SYSTEM_NOTIFICATIONS_TOPIC}

\* ------------------------------------------------------------ dict helpers
\* d.get(k, default)
Get(d, k, default) == IF k \in DOMAIN d THEN d[k] ELSE default

\* d.update(u): the keys of u overwrite, the other keys of d stay
DictUpdate(d, u) ==
  [k \in (DOMAIN d) \cup (DOMAIN u) |-> IF k \in DOMAIN u THEN u[k] ELSE d[k]]

\* d[k] = v on a dict d (d with key k set, added when absent)
DictSet(d, k, v) ==
  [x \in (DOMAIN d) \cup {k} |-> IF x = k THEN v ELSE d[x]]

EmptyDict == [k \in {} |-> "none"]

\* x.xx percent as hundredths
Pct(whole) == whole * 100

VARIABLES
  topics,        \* topic name -> sequence of records not yet consumed
  published,     \* every record a broker acknowledged: [topic, msg]
  unacked,       \* the workers' records no broker acknowledged, in order
  env_api_key,   \* the gateway's GOOGLE_API_KEY environment variable
  next_job,      \* the next job id generate_job_id() returns
  api,           \* position of the POST handler in flight
  http_resp,     \* the last HTTP response of the gateway
  db_sessions,   \* the jobs requests between their query and their commit
  job_statuses,  \* the gateway's status map: job_id -> dict
  failed_seen,   \* job ids whose job_failed the gateway has consumed
  scraper,       \* position and locals of the scraper's handler
  loader,        \* replica -> position and locals of the loader's handler
  files,         \* /app/data: job_id -> list of listing records
  db,            \* core.jobs: set of rows
  next_row_id,   \* the autoincrement of jobs.job_id
  first_commit,  \* job_id -> the table after the first run that committed
  boot,          \* service -> how far its startup got, and its broker clients
  ws,            \* the push channel: connections, sends, scheduled broadcasts
  consumer_thread  \* the gateway's consumer thread and its stop flag

vars ==
  <<topics, published, unacked, env_api_key, db_sessions, next_job, api,
    http_resp, job_statuses, failed_seen, scraper, loader, files, db,
    next_row_id, first_commit,
    boot, ws, consumer_thread>>

\* ----------------------------------------------------------------- startup
Services == {"gateway", "scraper", "loader"}

\* scraper.kafka_client.MAX_CONNECTION_RETRIES
MAX_CONNECTION_RETRIES == 5
\* `retries = 5` of the gateway's and of the loader's connect routines
GATEWAY_CONNECT_RETRIES == 5
LOADER_CONNECT_RETRIES == 5

\* A service whose startup is over with both clients connected at the first
\* attempt.
Started ==
  [pc |-> "serving", retries |-> 0, attempts |-> 0,
   producer |-> TRUE, consumer |-> TRUE]

\* start_consumer_thread has not run: no thread, and the stop flag as the
\* module creates it.
ThreadNotStarted ==
  [handle |-> FALSE, alive |-> FALSE, stop |-> FALSE, record |-> <<>>,
   updated_status_info |-> <<>>]

\* start_consumer_thread cleared stop_consumer_event and started the thread;
\* `handle` says the global consumer_thread holds it. `record` is the loop
\* variable of consume_kafka_messages, from the test of the stop flag to the
\* end of the `with lock` block: the record's topic and value. updated_status_info
\* is the thread's local of that name: empty at the top of the loop, and the
\* copy of the entry (with the job_id it belongs to) from the end of the
\* `with lock` block to the call of run_coroutine_threadsafe.
ThreadRunning ==
  [handle |-> TRUE, alive |-> TRUE, stop |-> FALSE, record |-> <<>>,
   updated_status_info |-> <<>>]

\* A service at the start of its process: it connects its producer first.
\* `retries` is the local of the connect routine in progress, which the
\* scraper counts up from 0 and the others count down from 5; `attempts`
\* counts the constructor calls that routine has made.
Starting(service) ==
  [pc |-> "producer",
   retries |-> CASE service = "scraper" -> 0
                 [] service = "gateway" -> GATEWAY_CONNECT_RETRIES
                 [] service = "loader" -> LOADER_CONNECT_RETRIES,
   attempts |-> 0, producer |-> FALSE, consumer |-> FALSE]

\* What a call of KafkaProducer(...) or KafkaConsumer(...) can do.
ConnectOutcomes == {"connected", "NoBrokersAvailable", "KafkaError"}

StartupFrame ==
  UNCHANGED <<topics, published, unacked, env_api_key, db_sessions, next_job, api, http_resp,
              job_statuses, failed_seen, scraper, loader, files, db,
              next_row_id, first_commit, ws>>

\* `retries -= 1` of the gateway's connect routines, without the decrement
RetriesLeft_not_counted(retries) == retries

\* `retries -= 1` of the gateway's connect routines
RetriesLeft(retries) == retries - 1

\* The service's startup is over in state pc: the routine's locals are gone.
\* The attempts of a routine that gave up stay on record.
Leave(b, pc, gave_up) ==
  [b EXCEPT !.pc = pc, !.retries = 0,
            !.attempts = IF gave_up THEN @ ELSE 0]

\* api.kafka_client.create_kafka_producer called by lifespan: one pass of
\* the loop. A raise leaves lifespan through its except clauses, which
\* re-raise: the application does not start.
api_create_kafka_producer(outcome) ==
  /\ boot["gateway"].pc = "producer"
  /\ boot["gateway"].retries > 0
  /\ LET b == [boot["gateway"] EXCEPT !.attempts = @ + 1]
         left == RetriesLeft(b.retries)
     IN boot' = [boot EXCEPT !["gateway"] =
          CASE outcome = "connected" ->
                 [b EXCEPT !.producer = TRUE, !.pc = "consumer",
                           !.retries = GATEWAY_CONNECT_RETRIES,
                           !.attempts = 0]
            [] outcome = "NoBrokersAvailable" ->
                 IF left = 0 THEN Leave(b, "aborted", TRUE)
                 ELSE [b EXCEPT !.retries = left]
            [] outcome = "KafkaError" -> Leave(b, "aborted", TRUE)]
  /\ UNCHANGED consumer_thread
  /\ StartupFrame

\* api.kafka_client.create_kafka_consumer called by start_consumer_thread:
\* one pass of the loop. start_consumer_thread catches the raise and returns
\* False, which lifespan logs before it yields: the application serves.
api_create_kafka_consumer(outcome) ==
  /\ boot["gateway"].pc = "consumer"
  /\ boot["gateway"].retries > 0
  /\ LET b == [boot["gateway"] EXCEPT !.attempts = @ + 1]
         left == RetriesLeft(b.retries)
     IN boot' = [boot EXCEPT !["gateway"] =
          CASE outcome = "connected" ->
                 Leave([b EXCEPT !.consumer = TRUE], "serving", FALSE)
            [] outcome = "NoBrokersAvailable" ->
                 IF left = 0 THEN Leave(b, "serving", TRUE)
                 ELSE [b EXCEPT !.retries = left]
            [] outcome = "KafkaError" -> Leave(b, "serving", TRUE)]
  /\ consumer_thread' =
       IF boot'["gateway"].pc = "serving" /\ boot'["gateway"].consumer
       THEN ThreadRunning ELSE consumer_thread
  /\ StartupFrame

\* scraper.kafka_client.get_kafka_producer called by main_consumer_loop: one
\* pass of the loop. On None the scraper exits.
get_kafka_producer(outcome) ==
  /\ boot["scraper"].pc = "producer"
  /\ boot["scraper"].retries < MAX_CONNECTION_RETRIES
  /\ LET b == [boot["scraper"] EXCEPT !.attempts = @ + 1]
         retries == b.retries + 1
     IN boot' = [boot EXCEPT !["scraper"] =
          CASE outcome = "connected" ->
                 [b EXCEPT !.producer = TRUE, !.pc = "consumer",
                           !.retries = 0, !.attempts = 0]
            [] outcome = "NoBrokersAvailable" ->
                 IF retries >= MAX_CONNECTION_RETRIES
                 THEN Leave(b, "exited", TRUE)
                 ELSE [b EXCEPT !.retries = retries]
            [] outcome = "KafkaError" -> Leave(b, "exited", TRUE)]
  /\ UNCHANGED consumer_thread
  /\ StartupFrame

\* scraper.kafka_client.get_kafka_consumer called by main_consumer_loop: one
\* pass of the loop. On None the scraper exits.
get_kafka_consumer(outcome) ==
  /\ boot["scraper"].pc = "consumer"
  /\ boot["scraper"].retries < MAX_CONNECTION_RETRIES
  /\ LET b == [boot["scraper"] EXCEPT !.attempts = @ + 1]
         retries == b.retries + 1
     IN boot' = [boot EXCEPT !["scraper"] =
          CASE outcome = "connected" ->
                 Leave([b EXCEPT !.consumer = TRUE], "serving", FALSE)
            [] outcome = "NoBrokersAvailable" ->
                 IF retries >= MAX_CONNECTION_RETRIES
                 THEN Leave(b, "exited", TRUE)
                 ELSE [b EXCEPT !.retries = retries]
            [] outcome = "KafkaError" -> Leave(b, "exited", TRUE)]
  /\ UNCHANGED consumer_thread
  /\ StartupFrame

\* loader.kafka_client.create_kafka_producer called by main_consumer_loop:
\* one pass of the loop. When the loop ends the routine returns None and
\* the loader goes on to create its consumer; a raise ends the process.
loader_create_kafka_producer(outcome) ==
  /\ boot["loader"].pc = "producer"
  /\ boot["loader"].retries > 0
  /\ LET b == [boot["loader"] EXCEPT !.attempts = @ + 1]
         retries == b.retries - 1
         next == [b EXCEPT !.pc = "consumer",
                           !.retries = LOADER_CONNECT_RETRIES,
                           !.attempts = 0]
     IN boot' = [boot EXCEPT !["loader"] =
          CASE outcome = "connected" -> [next EXCEPT !.producer = TRUE]
            [] outcome = "NoBrokersAvailable" ->
                 IF retries > 0 THEN [b EXCEPT !.retries = retries]
                 ELSE next
            [] outcome = "KafkaError" -> Leave(b, "exited", TRUE)]
  /\ UNCHANGED consumer_thread
  /\ StartupFrame

\* loader.kafka_client.create_kafka_consumer called by main_consumer_loop:
\* one pass of the loop, then `if not producer or not consumer: sys.exit(1)`.
loader_create_kafka_consumer(outcome) ==
  /\ boot["loader"].pc = "consumer"
  /\ boot["loader"].retries > 0
  /\ LET b == [boot["loader"] EXCEPT !.attempts = @ + 1]
         retries == b.retries - 1
     IN boot' = [boot EXCEPT !["loader"] =
          CASE outcome = "connected" ->
                 IF b.producer
                 THEN Leave([b EXCEPT !.consumer = TRUE], "serving", FALSE)
                 ELSE Leave([b EXCEPT !.consumer = TRUE], "exited", FALSE)
            [] outcome = "NoBrokersAvailable" ->
                 IF retries > 0 THEN [b EXCEPT !.retries = retries]
                 ELSE Leave(b, "exited", TRUE)
            [] outcome = "KafkaError" -> Leave(b, "exited", TRUE)]
  /\ UNCHANGED consumer_thread
  /\ StartupFrame

\* ------------------------------------------------------------ push channel
WsClients == {"c1", "c2"}

\* ConnectionManager.__init__, no endpoint coroutine started and nothing
\* scheduled on the event loop. sent[c] lists the messages handed to
\* c.send_json, in the order of the calls, each with what its call did or
\* "pending" while the coroutine that made the call is suspended in it.
\* `scheduled` holds the broadcast coroutines run_coroutine_threadsafe has
\* put on the loop and `tasks` the send_personal_message tasks asyncio.gather
\* has created, both in the order they were put there and not yet started.
WsInit ==
  [active_connections |-> <<>>,
   pc |-> [c \in WsClients |-> "closed"],
   current_statuses |-> [c \in WsClients |-> EmptyDict],
   sent |-> [c \in WsClients |-> <<>>],
   scheduled |-> <<>>,
   tasks |-> <<>>]

\* ------------------------------------------------------------------ broker
\* The queue of `topic` after a send of `msg` that the broker acknowledged
\* (ok) or did not.
TopicsAfterSend(tp, topic, msg, ok) ==
  IF ok THEN [tp EXCEPT ![topic] = Append(@, msg)] ELSE tp

\* What the log of acknowledged records keeps of a record.
LoggedKeys == {"job_id", "event_type", "source", "timestamp", "percentage"}

Logged(msg) == [k \in (DOMAIN msg) \cap LoggedKeys |-> msg[k]]

PublishedAfterSend(pb, topic, msg, ok) ==
  IF ok THEN pb \cup {[topic |-> topic, msg |-> Logged(msg)]} ELSE pb

\* ----------------------------------------------------------------- gateway
\* Request bodies of POST /trigger-job-pipeline.
\* A well-formed body for each max_jobs, and bodies that differ from it in
\* one field.
GoodPayload(max_jobs) ==
  [job_titles |-> <<"A", ",", " ", "B">>, location |-> "Paris",
   time_filter |-> "1w", max_jobs |-> max_jobs]

Payloads ==
  {GoodPayload(n) : n \in 0..MaxJobsParam}
  \cup {[GoodPayload(1) EXCEPT !.job_titles = <<>>],
        [GoodPayload(1) EXCEPT !.job_titles = <<" ">>],
        [GoodPayload(1) EXCEPT !.location = ""],
        [GoodPayload(1) EXCEPT !.time_filter = "2y"]}

\* PipelineTriggerRequest without its field constraints.
PipelineTriggerRequest_unconstrained(payload) == TRUE

\* PipelineTriggerRequest: the field constraints pydantic enforces (422).
PipelineTriggerRequest(payload) ==
  /\ Len(payload.job_titles) >= 1
  /\ Len(payload.location) >= 1
  /\ payload.time_filter \in {"24h", "1w", "1m"}
  /\ payload.max_jobs > 0

\* send_kafka_message that takes a send for acknowledged without waiting for
\* the broker's answer.
send_kafka_message_no_wait(producer_ok, ack) ==
  IF ~producer_ok THEN "KafkaError" ELSE "True"

\* api.kafka_client.send_kafka_message: "KafkaError" when the producer is
\* not initialized, else True / False as the broker acknowledges or not.
send_kafka_message(producer_ok, ack) ==
  IF ~producer_ok THEN "KafkaError"
  ELSE IF ack THEN "True" ELSE "False"

\* The except clauses of trigger_job_pipeline's try: `except KafkaError`
\* answers 503, `except Exception` answers 500.  HTTPException is an
\* Exception and not a KafkaError.
TriggerExcept(exc) == IF exc = "KafkaError" THEN 503 ELSE 500

\* The status code the try block of trigger_job_pipeline ends with: 202 when
\* it falls through, else what the except clause raises.  A False result
\* raises HTTPException(503) inside the try.
TriggerSendCode(outcome) ==
  CASE outcome = "True" -> 202
    [] outcome = "False" -> TriggerExcept("HTTPException")
    [] outcome = "KafkaError" -> TriggerExcept("KafkaError")

\* The job_requested event the gateway builds.
JobRequestedMessage(job_id, api_key, payload) ==
  [job_id |-> job_id,
   event_type |-> "job_requested",
   timestamp |-> "ts",
   parameters |->
     [GOOGLE_API_KEY |-> api_key, job_titles |-> payload.job_titles,
      location |-> payload.location, time_filter |-> payload.time_filter,
      max_jobs |-> payload.max_jobs]]

\* The entry the POST handler records.
RequestedEntry ==
  [status |-> "requested", requested_at |-> "ts", last_update |-> "ts",
   details |-> "Job request sent to Kafka."]

ApiIdle == [pc |-> "idle"]

\* POST /trigger-job-pipeline, up to the send to scraping-jobs, which the
\* broker acknowledges (ack) or not.  The handler
\* then takes job_status_lock (TriggerRecord); the consumer thread may run in
\* between.
TriggerJobPipeline(payload, ack) ==
  /\ boot["gateway"].pc = "serving"
  /\ api.pc = "idle"
  /\ IF ~PipelineTriggerRequest(payload)
     THEN /\ http_resp' = [endpoint |-> "trigger", code |-> 422]
          /\ UNCHANGED <<topics, published, unacked, next_job, api>>
     ELSE IF env_api_key = ""
     THEN /\ http_resp' = [endpoint |-> "trigger", code |-> 500]
          /\ UNCHANGED <<topics, published, unacked, next_job, api>>
     ELSE /\ next_job <= NumJobs
          /\ LET job_id == next_job
                 message == JobRequestedMessage(job_id, env_api_key, payload)
                 outcome == send_kafka_message(TRUE, ack)
             IN /\ next_job' = next_job + 1
                /\ topics' = TopicsAfterSend(topics, SCRAPING_JOBS_TOPIC,
                                             message, ack)
                /\ published' = PublishedAfterSend(published,
                                   SCRAPING_JOBS_TOPIC, message, ack)
                /\ IF TriggerSendCode(outcome) = 202
                   THEN /\ api' = [pc |-> "record", job_id |-> job_id]
                        /\ UNCHANGED http_resp
                   ELSE /\ http_resp' = [endpoint |-> "trigger",
                                         code |-> TriggerSendCode(outcome)]
                        /\ UNCHANGED api
  /\ UNCHANGED <<unacked, env_api_key, db_sessions, job_statuses, failed_seen,
                 scraper, loader, files, db, next_row_id, first_commit,
                 boot, ws, consumer_thread>>

\* The rest of the POST handler: record the entry under the lock, answer 202.
TriggerRecord ==
  /\ api.pc = "record"
  /\ job_statuses' = DictSet(job_statuses, api.job_id, RequestedEntry)
  /\ http_resp' = [endpoint |-> "trigger", code |-> 202, job_id |-> api.job_id]
  /\ api' = ApiIdle
  /\ UNCHANGED <<topics, published, unacked, env_api_key, db_sessions, next_job,
                 failed_seen, scraper, loader, files, db, next_row_id,
                 first_commit,
                 boot, ws, consumer_thread>>

\* str.upper() on the producer names.
Upper(source) ==
  CASE source = "scraper" -> "SCRAPER"
    [] source = "loader" -> "LOADER"
    [] source = "gateway" -> "GATEWAY"
    [] OTHER -> "UNKNOWN"

\* consume_kafka_messages: the fields every handled record sets.
BaseUpdateData(message) ==
  [last_update |-> Get(message, "timestamp", "ts"),
   event_timestamp |-> Get(message, "timestamp", "ts"),
   last_event_type |-> Get(message, "event_type", "None"),
   source |-> Get(message, "source", "unknown")]

\* consume_kafka_messages with status_changed set for every event type
StatusChanged_any_event_type(topic, message) == TRUE

\* consume_kafka_messages: does the record change the status map
StatusChanged(topic, message) ==
  LET event_type == Get(message, "event_type", "None")
  IN \/ /\ topic = JOB_STATUS_UPDATES_TOPIC
        /\ event_type \in {"job_started", "job_progress", "loading_progress",
                           "loading_complete"}
     \/ /\ topic = SYSTEM_NOTIFICATIONS_TOPIC
        /\ event_type = "job_failed"

\* consume_kafka_messages: update_data for a record of `topic`.
UpdateData(topic, message) ==
  LET event_type == Get(message, "event_type", "None")
      source == Get(message, "source", "unknown")
      base == BaseUpdateData(message)
      \* message.get("percentage", update_data.get('percentage', 0.0)):
      \* update_data is the dict built for this record, it has no percentage
      pct == Get(message, "percentage", Get(base, "percentage", 0))
  IN IF topic = JOB_STATUS_UPDATES_TOPIC
     THEN CASE event_type = "job_started" ->
                 DictUpdate(base, [status |-> "RUNNING",
                                   stage |-> Upper(source), percentage |-> 0])
            [] event_type = "job_progress" ->
                 DictUpdate(base, [status |-> "RUNNING",
                                   stage |-> Upper(source), percentage |-> pct])
            [] event_type = "loading_progress" ->
                 DictUpdate(base, [status |-> "LOADING DATA",
                                   stage |-> "LOADING DATA",
                                   percentage |-> pct])
            [] event_type = "loading_complete" ->
                 DictUpdate(base, [status |-> "COMPLETE",
                                   stage |-> "LOADING DATA",
                                   percentage |-> Pct(100)])
            [] OTHER -> base
     ELSE IF topic = SYSTEM_NOTIFICATIONS_TOPIC /\ event_type = "job_failed"
     THEN DictUpdate(base,
            [status |-> "FAILED", stage |-> Upper(source),
             error_details |-> Get(message, "error_details",
                                   "No details provided.")])
     ELSE base

\* The status map with the entry of the record's job replaced by update_data
\* instead of updated with it.
StatusesAfterRecord_entry_replaced(statuses, topic, message) ==
  IF "job_id" \notin DOMAIN message \/ ~StatusChanged(topic, message)
  THEN statuses
  ELSE DictSet(statuses, message.job_id,
               DictUpdate([job_id |-> message.job_id],
                          UpdateData(topic, message)))

\* The status map after the consumer thread handled one record.
StatusesAfterRecord(statuses, topic, message) ==
  IF "job_id" \notin DOMAIN message \/ ~StatusChanged(topic, message)
  THEN statuses
  ELSE LET job_id == message.job_id
           existing == IF job_id \in DOMAIN statuses
                       THEN statuses[job_id]
                       ELSE [job_id |-> job_id]
       IN DictSet(statuses, job_id,
                  DictUpdate(existing, UpdateData(topic, message)))

\* consume_kafka_messages, the payload keeping every key of the entry
BroadcastPayload_whole_entry(updated_status_info) == updated_status_info

\* consume_kafka_messages: broadcast_payload, the six keys read with .get
\* and the None values dropped
BroadcastPayload(updated_status_info) ==
  [k \in {"status", "stage", "percentage", "error_details", "last_update",
          "last_event_type"} \cap DOMAIN updated_status_info
     |-> updated_status_info[k]]

\* consume_kafka_messages: ws_message
WsMessage(job_id, updated_status_info) ==
  [type |-> "status_update", job_id |-> job_id,
   data |-> BroadcastPayload(updated_status_info)]

\* consume_kafka_messages, lines 199-208: what the thread holds when it
\* leaves the `with lock` block, the copy of the entry it updated.
UpdatedStatusInfo(statuses, topic, message) ==
  IF "job_id" \notin DOMAIN message \/ ~StatusChanged(topic, message)
  THEN <<>>
  ELSE <<[job_id |-> message.job_id,
          info |-> StatusesAfterRecord(statuses, topic,
                                       message)[message.job_id]]>>

\* consume_kafka_messages, line 136, with the test of the stop flag left out
StopEventSet_ignored(ct) == FALSE

\* consume_kafka_messages, line 136: stop_event.is_set()
StopEventSet(ct) == ct.stop

\* consume_kafka_messages, lines 135-138: the iterator yields the next record
\* of `topic` and the stop flag is tested; when it is set the loop breaks,
\* which ends the thread, and else the thread goes on with the record. A
\* closed consumer yields nothing.
ConsumerNextRecord(topic) ==
  /\ consumer_thread.alive
  /\ consumer_thread.record = <<>>
  /\ consumer_thread.updated_status_info = <<>>
  /\ boot["gateway"].consumer
  /\ topic \in CONSUMER_TOPICS
  /\ topics[topic] # <<>>
  /\ consumer_thread' =
       IF StopEventSet(consumer_thread)
       THEN [consumer_thread EXCEPT !.alive = FALSE]
       ELSE [consumer_thread EXCEPT !.record =
               <<[topic |-> topic, value |-> Head(topics[topic])]>>]
  /\ topics' = [topics EXCEPT ![topic] = Tail(@)]
  /\ UNCHANGED <<published, unacked, env_api_key, db_sessions, next_job, api,
                 http_resp, job_statuses, failed_seen, scraper, loader, files,
                 db, next_row_id, first_commit, boot, ws>>

\* consume_kafka_messages, lines 140-208: the thread handles the record of
\* `topic` it holds, whatever the stop flag has become since line 136; the
\* entry is updated under the lock and copied.
ConsumeRecord(topic) ==
  /\ consumer_thread.alive
  /\ consumer_thread.record # <<>>
  /\ consumer_thread.record[1].topic = topic
  /\ LET message == consumer_thread.record[1].value
     IN /\ job_statuses' =
             StatusesAfterRecord(job_statuses, topic, message)
        /\ failed_seen' =
             IF /\ "job_id" \in DOMAIN message
                /\ topic = SYSTEM_NOTIFICATIONS_TOPIC
                /\ Get(message, "event_type", "None") = "job_failed"
             THEN failed_seen \cup {message.job_id}
             ELSE failed_seen
        /\ consumer_thread' =
             [consumer_thread EXCEPT
                !.record = <<>>,
                !.updated_status_info =
                   UpdatedStatusInfo(job_statuses, topic, message)]
  /\ UNCHANGED <<topics, published, unacked, env_api_key, db_sessions, next_job, api,
                 http_resp, scraper, loader, files, db, next_row_id, first_commit,
                 boot, ws>>

\* The rest of the iteration, lines 210-226, after the lock is released: the
\* payload is built from the copy and the broadcast is scheduled on the
\* event loop with run_coroutine_threadsafe.
ScheduleBroadcast ==
  /\ consumer_thread.alive
  /\ consumer_thread.updated_status_info # <<>>
  /\ LET updated == consumer_thread.updated_status_info[1]
     IN ws' = [ws EXCEPT !.scheduled =
                 Append(@, WsMessage(updated.job_id, updated.info))]
  /\ consumer_thread' = [consumer_thread EXCEPT !.updated_status_info = <<>>]
  /\ UNCHANGED <<topics, published, unacked, env_api_key, db_sessions, next_job, api, http_resp,
                 job_statuses, failed_seen, scraper, loader, files, db,
                 next_row_id, first_commit, boot>>

\* The consumer thread's steps.
Consumer ==
  \/ \E topic \in CONSUMER_TOPICS : ConsumerNextRecord(topic)
  \/ \E topic \in CONSUMER_TOPICS : ConsumeRecord(topic)
  \/ ScheduleBroadcast

\* ------------------------------------------------------ gateway: shutdown
ShutdownFrame ==
  UNCHANGED <<topics, published, unacked, env_api_key, db_sessions, next_job, api, http_resp,
              job_statuses, failed_seen, scraper, loader, files, db,
              next_row_id, first_commit, ws>>

\* lifespan after the yield calls stop_consumer_thread: with a live thread
\* the stop flag is set and the thread is joined; without one only a line is
\* logged.
stop_consumer_thread ==
  /\ boot["gateway"].pc = "serving"
  /\ api.pc = "idle"
  /\ IF consumer_thread.handle /\ consumer_thread.alive
     THEN /\ consumer_thread' = [consumer_thread EXCEPT !.stop = TRUE]
          /\ boot' = [boot EXCEPT !["gateway"].pc = "join"]
     ELSE /\ boot' = [boot EXCEPT !["gateway"].pc = "close_consumer"]
          /\ UNCHANGED consumer_thread
  /\ ShutdownFrame

\* consumer_thread.join(timeout=10) returns, the thread ended or not, and
\* the global is set to None.
consumer_thread_join ==
  /\ boot["gateway"].pc = "join"
  /\ consumer_thread' = [consumer_thread EXCEPT !.handle = FALSE]
  /\ boot' = [boot EXCEPT !["gateway"].pc = "close_consumer"]
  /\ ShutdownFrame

\* close_kafka_consumer, called at the end of stop_consumer_thread (and once
\* more by lifespan, when the global is None already).
close_kafka_consumer ==
  /\ boot["gateway"].pc = "close_consumer"
  /\ boot' = [boot EXCEPT !["gateway"].pc = "close_producer",
                          !["gateway"].consumer = FALSE]
  /\ UNCHANGED consumer_thread
  /\ ShutdownFrame

\* close_kafka_producer: flush and close return and the global is set to
\* None (closed), or one of them raises, the global stays set and the
\* exception leaves lifespan, whose shutdown has no statement left to run.
close_kafka_producer(closed) ==
  /\ boot["gateway"].pc = "close_producer"
  /\ boot' = IF closed
             THEN [boot EXCEPT !["gateway"].pc = "down",
                               !["gateway"].producer = FALSE]
             ELSE [boot EXCEPT !["gateway"].pc = "shutdown_failed"]
  /\ UNCHANGED consumer_thread
  /\ ShutdownFrame

Shutdown ==
  \/ stop_consumer_thread
  \/ consumer_thread_join
  \/ close_kafka_consumer
  \/ \E closed \in BOOLEAN : close_kafka_producer(closed)


\* ------------------------------------------------------------ string helpers
\* Strings the code splits, strips or lower-cases: sequences of characters.
IsSpace(c) == c = " "

RECURSIVE LStrip(_)
LStrip(s) == IF s # <<>> /\ IsSpace(Head(s)) THEN LStrip(Tail(s)) ELSE s

RECURSIVE RStrip(_)
RStrip(s) ==
  IF s # <<>> /\ IsSpace(s[Len(s)]) THEN RStrip(SubSeq(s, 1, Len(s) - 1))
  ELSE s

\* str.strip()
Strip(s) == RStrip(LStrip(s))

LowerChar(c) ==
  CASE c = "A" -> "a"
    [] c = "B" -> "b"
    [] c = "C" -> "c"
    [] c = "X" -> "x"
    [] c = "Y" -> "y"
    [] OTHER -> c

\* str.lower()
Lower(s) == [i \in 1..Len(s) |-> LowerChar(s[i])]

\* str.split(sep) for a one-character separator
RECURSIVE SplitAcc(_, _, _)
SplitAcc(s, sep, cur) ==
  IF s = <<>> THEN <<cur>>
  ELSE IF Head(s) = sep THEN <<cur>> \o SplitAcc(Tail(s), sep, <<>>)
  ELSE SplitAcc(Tail(s), sep, Append(cur, Head(s)))

Split(s, sep) == SplitAcc(s, sep, <<>>)

\* [f(x) for x in seq if p(x)] with f = strip and p = "strip is non-empty"
RECURSIVE StripNonEmpty(_)
StripNonEmpty(parts) ==
  IF parts = <<>> THEN <<>>
  ELSE IF Strip(Head(parts)) # <<>>
       THEN <<Strip(Head(parts))>> \o StripNonEmpty(Tail(parts))
       ELSE StripNonEmpty(Tail(parts))

Min(a, b) == IF a <= b THEN a ELSE b

Max(a, b) == IF a >= b THEN a ELSE b

\* ------------------------------------------------------------- float helpers
\* Python's float is the IEEE 754 double: 53 significant bits.  A positive
\* float is modelled as [bits, e]: its 53 significant bits, the most
\* significant one (a 1) first, and the exponent e of that first bit.  Every
\* operation gives the exact result rounded to the nearest float, a tie to
\* the float whose last bit is 0.
MantissaBits == 53

\* The integer a short bit string spells.
RECURSIVE BitsToInt(_)
BitsToInt(bits) ==
  IF bits = <<>> THEN 0
  ELSE 2 * BitsToInt(SubSeq(bits, 1, Len(bits) - 1)) + bits[Len(bits)]

\* The seven bits of n < 128.
SmallBits(n) == [i \in 1..7 |-> (n \div 2^(7 - i)) % 2]

\* bits + 1 on as many bits; all ones gives all zeros.
RECURSIVE Increment(_)
Increment(bits) ==
  IF bits = <<>> THEN <<>>
  ELSE IF bits[Len(bits)] = 0 THEN [bits EXCEPT ![Len(bits)] = 1]
  ELSE Append(Increment(SubSeq(bits, 1, Len(bits) - 1)), 0)

\* The float nearest to the positive number the bit string spells, its first
\* bit having exponent e: round to nearest, ties to even.
RECURSIVE RoundBits(_, _)
RoundBits(bits, e) ==
  IF bits[1] = 0 THEN RoundBits(Tail(bits), e - 1)
  ELSE IF Len(bits) <= MantissaBits
  THEN [bits |-> bits \o [i \in 1..(MantissaBits - Len(bits)) |-> 0],
        e |-> e]
  ELSE LET kept == SubSeq(bits, 1, MantissaBits)
           rest == SubSeq(bits, MantissaBits + 1, Len(bits))
           up == /\ rest[1] = 1
                 /\ \/ \E i \in 2..Len(rest) : rest[i] = 1
                    \/ kept[MantissaBits] = 1
           next == Increment(kept)
       IN IF ~up THEN [bits |-> kept, e |-> e]
          ELSE IF next[1] = 0
          THEN [bits |-> [next EXCEPT ![1] = 1], e |-> e + 1]
          ELSE [bits |-> next, e |-> e]

\* float(n) for 0 < n < 128
FloatOfInt(n) == RoundBits(SmallBits(n), 6)

\* The first n bits of r / b for b <= r < 2 * b, by long division, and one
\* more bit that says whether a remainder is left.
RECURSIVE DivBits(_, _, _)
DivBits(r, b, n) ==
  IF n = 0 THEN <<IF r # 0 THEN 1 ELSE 0>>
  ELSE IF r >= b THEN <<1>> \o DivBits(2 * (r - b), b, n - 1)
  ELSE <<0>> \o DivBits(2 * r, b, n - 1)

\* a / b of two positive ints as `/` computes it: the quotient's first bit
\* has exponent e once b * 2^e <= a < b * 2^(e + 1).
RECURSIVE FloatDiv(_, _, _)
FloatDiv(a, b, e) ==
  IF a < b THEN FloatDiv(2 * a, b, e - 1)
  ELSE IF a >= 2 * b THEN FloatDiv(a, 2 * b, e + 1)
  ELSE RoundBits(DivBits(a, b, MantissaBits + 1), e)

\* The bits of bits * c + carry for c < 128: seven more than `bits` has.
RECURSIVE TimesSmall(_, _, _)
TimesSmall(bits, c, carry) ==
  IF bits = <<>> THEN SmallBits(carry)
  ELSE LET t == bits[Len(bits)] * c + carry
       IN IF t % 2 = 0
          THEN Append(TimesSmall(SubSeq(bits, 1, Len(bits) - 1), c,
                                 t \div 2), 0)
          ELSE Append(TimesSmall(SubSeq(bits, 1, Len(bits) - 1), c,
                                 t \div 2), 1)

\* x * float(c) for an int 0 < c < 128
FloatTimes(x, c) == RoundBits(TimesSmall(x.bits, c, 0), x.e + 7)

\* x < y
FloatLess(x, y) ==
  \/ x.e < y.e
  \/ /\ x.e = y.e
     /\ \E i \in 1..MantissaBits :
          /\ x.bits[i] < y.bits[i]
          /\ \A j \in 1..(i - 1) : x.bits[j] = y.bits[j]

\* min(x, y)
FloatMin(x, y) == IF FloatLess(y, x) THEN y ELSE x

\* The bits of a + b + carry, for bit strings of one length whose sum fits.
RECURSIVE AddBits(_, _, _)
AddBits(a, b, carry) ==
  IF a = <<>> THEN <<>>
  ELSE LET n == Len(a)
           t == a[n] + b[n] + carry
       IN IF t % 2 = 0
          THEN Append(AddBits(SubSeq(a, 1, n - 1), SubSeq(b, 1, n - 1),
                              t \div 2), 0)
          ELSE Append(AddBits(SubSeq(a, 1, n - 1), SubSeq(b, 1, n - 1),
                              t \div 2), 1)

\* x + y: both are written on the positions from one above the higher first
\* bit down to the lower last bit, and the exact sum is rounded.
FloatPlus(x, y) ==
  LET top == Max(x.e, y.e) + 1
      low == Min(x.e, y.e) - (MantissaBits - 1)
      Wide(v) == [i \in 1..(top - low + 1) |->
                    LET p == top - (i - 1)
                    IN IF p <= v.e /\ p > v.e - MantissaBits
                       THEN v.bits[v.e - p + 1] ELSE 0]
  IN RoundBits(AddBits(Wide(x), Wide(y), 0), top)

\* round(x, 2) of a float 1 <= x < 128, in hundredths: the built-in rounds
\* the float's exact value to the nearest decimal with two places, a tie to
\* the even one.
RoundHundredths(x) ==
  LET scaled == TimesSmall(x.bits, 100, 0)
      whole == BitsToInt(SubSeq(scaled, 1, x.e + 8))
      rest == SubSeq(scaled, x.e + 9, Len(scaled))
  IN IF rest = <<>> \/ rest[1] = 0 THEN whole
     ELSE IF \E i \in 2..Len(rest) : rest[i] = 1 THEN whole + 1
     ELSE IF whole % 2 = 0 THEN whole ELSE whole + 1

\* ----------------------------------------------------------------- scraper
\* Job ids: the ones the gateway generates, and one more that only events of
\* other producers carry.
JobIds == 1..NumJobs
ForeignJobId == NumJobs + 1
AllJobIds == 1..(NumJobs + 1)

\* scrape_linkedin_jobs, lines 277-357: the cards it keeps, as job_data is
\* when it is appended, search_query apart. A kept card has a title, a
\* company and a url (lines 326-330); its location may be None. None of a
\* text field the code only tests for truth is the empty sequence, None of
\* the other fields is "None".
ListingPool ==
  {[title |-> <<"X">>, company |-> <<"A">>, location |-> <<"P">>,
    date_posted |-> <<>>, url |-> "https://www.linkedin.com/jobs/view/1",
    description |-> "None", extracted_skills |-> <<>>],
   [title |-> <<"X">>, company |-> <<"A">>, location |-> <<>>,
    date_posted |-> <<>>, url |-> "https://www.linkedin.com/jobs/view/2",
    description |-> "None", extracted_skills |-> <<>>]}

ScraperIdle == [pc |-> "idle"]

\* scraper.kafka_client.send_kafka_message adds the timestamp when absent.
WithTimestamp(message) ==
  IF "timestamp" \in DOMAIN message THEN message
  ELSE DictSet(message, "timestamp", "ts")

\* kafka_progress_reporter's event
ScraperProgress(job_id, percentage, description) ==
  WithTimestamp(
    [job_id |-> job_id, event_type |-> "job_progress", source |-> "scraper",
     percentage |-> percentage, description |-> description])

ScraperJobFailed(job_id, error_msg) ==
  WithTimestamp(
    [job_id |-> job_id, event_type |-> "job_failed", source |-> "scraper",
     error_details |-> error_msg])

LoadingRequested(job_id) ==
  WithTimestamp(
    [job_id |-> job_id, event_type |-> "loading_requested",
     source |-> "scraper", data_path |-> <<"/app/data", job_id>>])

\* process_scraping_job, lines 427-431: "not job_id or not parameters"
ScraperRejectsSilently(job_data) ==
  \/ "job_id" \notin DOMAIN job_data
  \/ Get(job_data, "parameters", EmptyDict) = EmptyDict

\* process_scraping_job, line 466: a required parameter is missing or falsy
MissingParameters(parameters) ==
  \/ Get(parameters, "job_titles", <<>>) = <<>>
  \/ Get(parameters, "location", "") = ""
  \/ Get(parameters, "max_jobs", 0) = 0

\* process_scraping_job, lines 484-486
\* process_scraping_job, lines 484-486, without the strip of the elements
ParseJobTitles_not_stripped(job_titles_str) == Split(job_titles_str, ",")

\* process_scraping_job, lines 484-486
ParseJobTitles(job_titles_str) == StripNonEmpty(Split(job_titles_str, ","))

\* process_scraping_job, lines 483-496: the try raises ValueError
InvalidParameterFormat(parameters) ==
  \/ ParseJobTitles(parameters.job_titles) = <<>>
  \/ parameters.max_jobs <= 0

\* The percentage of lines 350-353 with the listings' share scaled to 100.
ListingPercentage_full_scale(jobs_scraped_count, total_jobs_to_scrape) ==
  RoundHundredths(
    FloatPlus(FloatOfInt(5),
              FloatMin(FloatOfInt(100),
                       FloatTimes(FloatDiv(jobs_scraped_count,
                                           total_jobs_to_scrape, 0), 100))))

\* scrape_linkedin_jobs, lines 350-353: the percentage after the k-th kept
\* listing of max_jobs, 5.0 + min(75.0, (k / N) * 75.0) computed in floats
\* and rounded to two places, in hundredths.
ListingPercentage(jobs_scraped_count, total_jobs_to_scrape) ==
  RoundHundredths(
    FloatPlus(FloatOfInt(5),
              FloatMin(FloatOfInt(75),
                       FloatTimes(FloatDiv(jobs_scraped_count,
                                           total_jobs_to_scrape, 0), 75))))

\* A worker's send. send_kafka_message (scraper) and send_message (loader)
\* block until the broker has the record (future.get, producer.flush) and
\* return False when the send raises or, for the scraper, when the
\* acknowledgement does not come within 10 s; the workers ignore the result
\* and go on. The record is acknowledged or not, with at most MaxLostSends
\* records lost in a run. Every step of a worker makes at most one send, as
\* its last effect.
WorkerSend(tp, topic, msg) ==
  \E ok \in BOOLEAN :
    /\ topics' = TopicsAfterSend(tp, topic, msg, ok)
    /\ published' = PublishedAfterSend(published, topic, msg, ok)
    /\ unacked' = IF ok THEN unacked
                  ELSE Append(unacked, [topic |-> topic, msg |-> msg])
    /\ Len(unacked') <= MaxLostSends

ScraperFrame ==
  UNCHANGED <<env_api_key, db_sessions, next_job, api, http_resp, job_statuses,
              failed_seen, loader, db, next_row_id, first_commit,
              boot, ws, consumer_thread>>

\* main_consumer_loop takes the next record of scraping-jobs (lines 610-631);
\* process_scraping_job returns at once on a record without job_id or
\* parameters, and reports 0.0 'Initializing...' otherwise (line 457).
ScraperConsume ==
  /\ boot["scraper"].pc = "serving"
  /\ scraper.pc = "idle"
  /\ topics[SCRAPING_JOBS_TOPIC] # <<>>
  /\ LET job_data == Head(topics[SCRAPING_JOBS_TOPIC])
         rest == [topics EXCEPT ![SCRAPING_JOBS_TOPIC] = Tail(@)]
     IN IF \/ Get(job_data, "event_type", "None") # "job_requested"
           \/ ScraperRejectsSilently(job_data)
        THEN /\ topics' = rest
             /\ UNCHANGED <<published, unacked, scraper>>
        ELSE /\ WorkerSend(rest, JOB_STATUS_UPDATES_TOPIC,
                  ScraperProgress(job_data.job_id, Pct(0),
                                  <<"Initializing...", 0, 0>>))
             /\ scraper' = [pc |-> "validating", job_id |-> job_data.job_id,
                            parameters |-> job_data.parameters]
  /\ UNCHANGED files
  /\ ScraperFrame

\* process_scraping_job, lines 466-479 and 483-509: a required parameter is
\* missing, or the try of lines 484-495 raises ValueError; job_failed is sent.
ScraperRefuse ==
  /\ scraper.pc = "validating"
  /\ \/ MissingParameters(scraper.parameters)
     \/ InvalidParameterFormat(scraper.parameters)
  /\ WorkerSend(topics, SYSTEM_NOTIFICATIONS_TOPIC,
       ScraperJobFailed(scraper.job_id,
         IF MissingParameters(scraper.parameters)
         THEN "Missing required parameters"
         ELSE "Invalid parameter format"))
  /\ scraper' = [pc |-> "failed", job_id |-> scraper.job_id]
  /\ UNCHANGED files
  /\ ScraperFrame

\* kafka_progress_reporter(0.0, "Failed: ...") of lines 480, 510 and 585: the
\* send that follows the job_failed of every failure path, and the return.
ScraperReportFailed ==
  /\ scraper.pc = "failed"
  /\ WorkerSend(topics, JOB_STATUS_UPDATES_TOPIC,
       ScraperProgress(scraper.job_id, Pct(0), <<"Failed", 0, 0>>))
  /\ scraper' = ScraperIdle
  /\ UNCHANGED files
  /\ ScraperFrame

\* process_scraping_job, lines 483-532: the parameters are parsed and 2.0
\* 'Starting LinkedIn job scraping...' is reported.
ScraperStart ==
  /\ scraper.pc = "validating"
  /\ ~MissingParameters(scraper.parameters)
  /\ ~InvalidParameterFormat(scraper.parameters)
  /\ WorkerSend(topics, JOB_STATUS_UPDATES_TOPIC,
       ScraperProgress(scraper.job_id, Pct(2),
                       <<"Starting LinkedIn job scraping...", 0, 0>>))
  /\ scraper' = [pc |-> "starting", job_id |-> scraper.job_id,
                 job_titles_str |-> scraper.parameters.job_titles,
                 job_titles |-> ParseJobTitles(scraper.parameters.job_titles),
                 max_jobs |-> scraper.parameters.max_jobs]
  /\ UNCHANGED files
  /\ ScraperFrame

\* scrape_linkedin_jobs, lines 209-220: the locals are set and 5.0
\* 'Initializing job search...' is reported.
ScraperStartSearch ==
  /\ scraper.pc = "starting"
  /\ WorkerSend(topics, JOB_STATUS_UPDATES_TOPIC,
       ScraperProgress(scraper.job_id, Pct(5),
                       <<"Initializing job search...", 0, 0>>))
  /\ scraper' = [pc |-> "scraping", job_id |-> scraper.job_id,
                 job_titles_str |-> scraper.job_titles_str,
                 job_titles |-> scraper.job_titles,
                 queried |-> 0,
                 searching |-> FALSE,
                 abandoned |-> {},
                 max_jobs |-> scraper.max_jobs,
                 all_jobs_data |-> <<>>]
  /\ UNCHANGED files
  /\ ScraperFrame

\* scrape_linkedin_jobs, the titles it has requested search pages for: the
\* first `queried` ones of job_titles.
QueriedTitles(s) == {s.job_titles[i] : i \in 1..s.queried}

\* scrape_linkedin_jobs, lines 238-244 and 269-275: max_jobs is reached, the
\* test of the loops that sets search_interrupted.
MaxJobsReached_never(s) == FALSE

MaxJobsReached(s) == Len(s.all_jobs_data) >= s.max_jobs

\* A search page that ends the job: an error of the page propagates to the
\* except clause of process_scraping_job, which sends job_failed.
ScraperPageEnds_fails_job(outcome) ==
  /\ scraper.pc = "scraping"
  /\ scraper.searching
  /\ ~MaxJobsReached(scraper)
  /\ IF outcome = "no_cards"
     THEN /\ scraper' = [scraper EXCEPT !.searching = FALSE]
          /\ UNCHANGED <<topics, published, unacked>>
     ELSE /\ scraper' = [pc |-> "failed", job_id |-> scraper.job_id]
          /\ WorkerSend(topics, SYSTEM_NOTIFICATIONS_TOPIC,
               ScraperJobFailed(scraper.job_id,
                                "Scraping job failed during execution"))
  /\ UNCHANGED files
  /\ ScraperFrame

\* scrape_linkedin_jobs: the search is over when a loop found max_jobs
\* reached (search_interrupted) or the loop over the titles ended.
SearchOver(s) ==
  \/ MaxJobsReached(s)
  \/ ~s.searching /\ s.queried = Len(s.job_titles)

\* scrape_linkedin_jobs, lines 222-258: the for loop takes the next title and
\* the while loop requests its first search page.
ScraperQueryTitle ==
  /\ scraper.pc = "scraping"
  /\ ~scraper.searching
  /\ ~SearchOver(scraper)
  /\ scraper' = [scraper EXCEPT !.queried = @ + 1, !.searching = TRUE]
  /\ UNCHANGED <<topics, published, unacked, files>>
  /\ ScraperFrame

\* What a requested search page can end the while loop of its title with: a
\* page without cards (line 261), or one of the except clauses of lines
\* 379-395.
PageEnds == {"no_cards", "Timeout", "RequestException", "Exception"}

\* scrape_linkedin_jobs, lines 255-266 and 379-395: a search page of the
\* current title is requested and ends the while loop of that title; the
\* except clauses log "Stopping search for this query" and break.
\* abandoned: the titles (by position) whose search an error stopped.
ScraperPageEnds(outcome) ==
  /\ scraper.pc = "scraping"
  /\ scraper.searching
  /\ ~MaxJobsReached(scraper)
  /\ scraper' = [scraper EXCEPT
                   !.searching = FALSE,
                   !.abandoned = IF outcome = "no_cards" THEN @
                                 ELSE @ \cup {scraper.queried}]
  /\ UNCHANGED <<topics, published, unacked, files>>
  /\ ScraperFrame

\* scrape_linkedin_jobs, lines 268-359: one more card of a search page of
\* the current title is kept (its detail page is fetched), and reported.
ScraperKeepListing(listing) ==
  /\ scraper.pc = "scraping"
  /\ scraper.searching
  /\ ~MaxJobsReached(scraper)
  /\ LET jobs_scraped_count == Len(scraper.all_jobs_data) + 1
     IN /\ WorkerSend(topics, JOB_STATUS_UPDATES_TOPIC,
             ScraperProgress(scraper.job_id,
               ListingPercentage(jobs_scraped_count, scraper.max_jobs),
               <<"Scraped job", jobs_scraped_count, scraper.max_jobs>>))
        /\ scraper' = [scraper EXCEPT !.all_jobs_data =
                          Append(@, DictSet(listing, "search_query",
                                     scraper.job_titles[scraper.queried]))]
  /\ UNCHANGED files
  /\ ScraperFrame

\* process_scraping_job, lines 534-545: the search is over (max_jobs reached,
\* no more cards, or a page failed), scrape_linkedin_jobs returns and 85.0
\* 'Saving scraped data...' is reported.
ScraperReportSaving ==
  /\ scraper.pc = "scraping"
  /\ SearchOver(scraper)
  /\ WorkerSend(topics, JOB_STATUS_UPDATES_TOPIC,
       ScraperProgress(scraper.job_id, Pct(85),
                       <<"Saving scraped data...", 0, 0>>))
  /\ scraper' = [pc |-> "saving", job_id |-> scraper.job_id,
                 abandoned |-> scraper.abandoned,
                 max_jobs |-> scraper.max_jobs,
                 all_jobs_data |-> scraper.all_jobs_data]
  /\ UNCHANGED files
  /\ ScraperFrame

\* save_to_json that returns without having written the file.
ScraperSaveOk_not_written ==
  /\ scraper.pc = "saving"
  /\ scraper' = [scraper EXCEPT !.pc = "saved"]
  /\ UNCHANGED <<topics, published, unacked, files>>
  /\ ScraperFrame

\* process_scraping_job, line 547: save_to_json writes the file.
ScraperSaveOk ==
  /\ scraper.pc = "saving"
  /\ files' = DictSet(files, scraper.job_id, scraper.all_jobs_data)
  /\ scraper' = [scraper EXCEPT !.pc = "saved"]
  /\ UNCHANGED <<topics, published, unacked>>
  /\ ScraperFrame

\* What save_to_json leaves on disk when json.dump or the close of the file
\* raises: open(filepath, "w") has created or emptied the file and part of
\* the text may be in it. No prefix of the text json.dump writes for a list
\* is a JSON document, so the file cannot be decoded.
PartialFile == <<[partial |-> TRUE]>>

\* json.load reads the file as a list.
Decodable(file) == file # PartialFile

\* The files after a save_to_json that raised: os.makedirs or open raised and
\* the file is as it was (opened = FALSE), or the file was opened for
\* writing before the exception.
FilesAfterFailedSave(fs, job_id, opened) ==
  IF opened THEN DictSet(fs, job_id, PartialFile) ELSE fs

\* process_scraping_job, lines 547 and 571-584: save_to_json raises, and the
\* except clause sends job_failed.
ScraperSaveFails(opened) ==
  /\ scraper.pc = "saving"
  /\ WorkerSend(topics, SYSTEM_NOTIFICATIONS_TOPIC,
       ScraperJobFailed(scraper.job_id,
                        "Scraping job failed during execution"))
  /\ scraper' = [pc |-> "failed", job_id |-> scraper.job_id]
  /\ files' = FilesAfterFailedSave(files, scraper.job_id, opened)
  /\ ScraperFrame

\* process_scraping_job, line 552: 88.0 'Requesting data processing...'
ScraperReportRequest ==
  /\ scraper.pc = "saved"
  /\ WorkerSend(topics, JOB_STATUS_UPDATES_TOPIC,
       ScraperProgress(scraper.job_id, Pct(88),
                       <<"Requesting data processing...", 0, 0>>))
  /\ scraper' = [scraper EXCEPT !.pc = "requesting"]
  /\ UNCHANGED files
  /\ ScraperFrame

\* process_scraping_job, lines 554-564: the loading_requested event.
ScraperRequestLoading ==
  /\ scraper.pc = "requesting"
  /\ WorkerSend(topics, DATA_PROCESSING_TOPIC,
                LoadingRequested(scraper.job_id))
  /\ scraper' = [pc |-> "finish", job_id |-> scraper.job_id,
                 abandoned |-> scraper.abandoned]
  /\ UNCHANGED files
  /\ ScraperFrame

\* kafka_progress_reporter(90, ...), lines 566-569, after the
\* loading_requested event is out: the loader may already be at work on the
\* job.
ScraperFinish ==
  /\ scraper.pc = "finish"
  /\ WorkerSend(topics, JOB_STATUS_UPDATES_TOPIC,
       ScraperProgress(scraper.job_id, Pct(90),
         <<"Scraping and processing request completed successfully.",
           0, 0>>))
  /\ scraper' = ScraperIdle
  /\ UNCHANGED files
  /\ ScraperFrame

\* ------------------------------------------------------------------ loader
\* The loader replicas that run.
LoaderIds == {1}

LoaderIdle == [pc |-> "idle"]

\* Dates as the site gives them: sequences of pieces, where " " and "T" are
\* the separators parse_date splits at; strptime accepts a piece iff it is a
\* %Y-%m-%d date.
ValidDates == {"2024-01-02"}

\* s.split(sep)[0] on a sequence of pieces
RECURSIVE Before(_, _)
Before(s, sep) ==
  IF s = <<>> \/ Head(s) = sep THEN <<>> ELSE <<Head(s)>> \o Before(Tail(s), sep)

\* loader.parse_date: the date, or "None"
parse_date(date_str) ==
  IF date_str = <<>> THEN "None"
  ELSE LET cut == Before(Before(date_str, " "), "T")
       IN IF Len(cut) = 1 /\ cut[1] \in ValidDates THEN cut[1] ELSE "None"

\* process_job_listing, lines 93-101: the stripped, non-blank skills, each once
RECURSIVE UniqueSkills(_, _)
UniqueSkills(skills, acc) ==
  IF skills = <<>> THEN acc
  ELSE LET stripped_skill == Strip(Head(skills))
       IN IF stripped_skill # <<>> /\ \A i \in 1..Len(acc) : acc[i] # stripped_skill
          THEN UniqueSkills(Tail(skills), Append(acc, stripped_skill))
          ELSE UniqueSkills(Tail(skills), acc)

\* The key of line 74 compared with the case kept.
JobKey_case_kept(title, company) == <<Strip(title), Strip(company)>>

\* process_job_listing, line 74
JobKey(title, company) == <<Lower(Strip(title)), Lower(Strip(company))>>

\* process_job_listing that does not look the key up in existing_job_keys
process_job_listing_no_lookup(job_data, existing_job_keys) ==
  LET title == Get(job_data, "title", <<>>)
      company == Get(job_data, "company", <<>>)
  IN IF title = <<>> \/ company = <<>> THEN <<>>
     ELSE IF Get(job_data, "location", <<>>) = <<>> THEN <<>>
     ELSE <<[title |-> Strip(title),
           company_name |-> Strip(company),
           location |-> Strip(job_data.location),
           job_url |-> Get(job_data, "url", "None"),
           date_posted |-> parse_date(Get(job_data, "date_posted", <<>>)),
           progress |-> "Haven't Applied",
           skills |-> UniqueSkills(Get(job_data, "extracted_skills", <<>>),
                                   <<>>)]>>

\* process_job_listing: <<the new Job>>, or <<>> (None) when the record is
\* skipped
process_job_listing(job_data, existing_job_keys) ==
  LET title == Get(job_data, "title", <<>>)
      company == Get(job_data, "company", <<>>)
  IN IF title = <<>> \/ company = <<>> THEN <<>>
     ELSE IF JobKey(title, company) \in existing_job_keys THEN <<>>
     ELSE IF Get(job_data, "location", <<>>) = <<>> THEN <<>>
     ELSE <<[title |-> Strip(title),
           company_name |-> Strip(company),
           location |-> Strip(job_data.location),
           job_url |-> Get(job_data, "url", "None"),
           date_posted |-> parse_date(Get(job_data, "date_posted", <<>>)),
           progress |-> "Haven't Applied",
           skills |-> UniqueSkills(Get(job_data, "extracted_skills", <<>>),
                                   <<>>)]>>

\* process_loading_request, lines 220-228: the loop over the file's records.
\* acc = [keys, objects_to_add, new_jobs_count, duplicates_count]
RECURSIVE ProcessListings(_, _)
ProcessListings(job_listings, acc) ==
  IF job_listings = <<>> THEN acc
  ELSE LET job_data == Head(job_listings)
           new_job_object == process_job_listing(job_data, acc.keys)
       IN IF new_job_object # <<>>
          THEN ProcessListings(Tail(job_listings),
                 [keys |-> acc.keys \cup {JobKey(job_data.title, job_data.company)},
                  objects_to_add |-> acc.objects_to_add \o new_job_object,
                  new_jobs_count |-> acc.new_jobs_count + 1,
                  duplicates_count |-> acc.duplicates_count])
          ELSE ProcessListings(Tail(job_listings),
                 [acc EXCEPT !.duplicates_count =
                    IF /\ Get(job_data, "title", <<>>) # <<>>
                       /\ Get(job_data, "company", <<>>) # <<>>
                    THEN @ + 1 ELSE @])

\* process_loading_request, lines 209-210: the keys of the rows in the table
ExistingJobKeys(rows) == {JobKey(row.title, row.company_name) : row \in rows}

\* jobs.job_url is UNIQUE (NULLs apart): does adding `objects` to `rows`
\* violate it
UrlConflict(rows, objects) ==
  \/ \E i \in 1..Len(objects) :
       /\ objects[i].job_url # "None"
       /\ \E row \in rows : row.job_url = objects[i].job_url
  \/ \E i, j \in 1..Len(objects) :
       /\ i < j
       /\ objects[i].job_url # "None"
       /\ objects[i].job_url = objects[j].job_url

\* session.add_all + commit: the rows get the next job_ids
CommittedRows(rows, objects, first_id) ==
  rows \cup {DictSet(objects[i], "job_id", first_id + i - 1) :
               i \in 1..Len(objects)}

\* send_status_update's message
LoaderMessage(job_id, event_type, extra) ==
  DictUpdate([job_id |-> job_id, event_type |-> event_type,
              source |-> "loader", timestamp |-> "ts"], extra)

\* main_consumer_loop, line 315: the record triggers process_loading_request
LoaderAccepts(msg_data) ==
  /\ Get(msg_data, "event_type", "None") = "loading_requested"
  /\ "job_id" \in DOMAIN msg_data
  /\ Get(msg_data, "source", "None") = "scraper"

LoaderFrame ==
  UNCHANGED <<env_api_key, db_sessions, next_job, api, http_resp, job_statuses,
              failed_seen, scraper, boot, ws, consumer_thread>>

\* The table after the first committed run for job_id is remembered.
FirstCommitAfter(fc, job_id, rows) ==
  IF job_id \in DOMAIN fc THEN fc ELSE DictSet(fc, job_id, rows)

\* The job_failed of a failure path of the loader.
LoaderJobFailed(job_id, error_msg) ==
  LoaderMessage(job_id, "job_failed", [error_details |-> error_msg])

\* The handler after the job_failed of a failure path: the job_progress
\* 'Failed: ...' at current_percentage is to be sent. `session` tells whether
\* the path then closes a session or disposes of an engine (lines 188,
\* 197-198 and 277-283).
LoaderFailed(job_id, current_percentage, session) ==
  [pc |-> "failed", job_id |-> job_id,
   current_percentage |-> current_percentage, session |-> session]

\* process_loading_request after its last send: it returns to the consumer
\* loop, or session.close() or engine.dispose() raises, which no clause of
\* process_loading_request catches, and the exception reaches the except
\* clause of main_consumer_loop (line 323).
LoaderAfterClose(job_id, close_ok) ==
  IF close_ok THEN LoaderIdle ELSE [pc |-> "raised", job_id |-> job_id]

\* The loading_complete event of lines 151-152 and 254-255.
LoadingComplete(job_id, description) ==
  LoaderMessage(job_id, "loading_complete",
                [percentage |-> Pct(100), description |-> description])

\* The system_warning of lines 158-159 and 264-265.
RemovalWarning(job_id, details) ==
  LoaderMessage(job_id, "system_warning", [details |-> details])

\* os.remove(file_path)
FilesAfterRemove(fs, job_id, removed) ==
  IF removed THEN [j \in (DOMAIN fs) \ {job_id} |-> fs[j]] ELSE fs

\* The description of the 98% job_progress, lines 239-242.
CommitMessage(duplicates_count, new_jobs_count) ==
  IF duplicates_count > 0
  THEN <<"Identified duplicates. Preparing to commit new jobs...",
         duplicates_count, new_jobs_count>>
  ELSE <<"Preparing to commit new jobs...", 0, new_jobs_count>>

\* main_consumer_loop skips a record that is no loading_requested of the
\* scraper.
LoaderSkip(r) ==
  /\ boot["loader"].pc = "serving"
  /\ loader[r].pc = "idle"
  /\ topics[DATA_PROCESSING_TOPIC] # <<>>
  /\ ~LoaderAccepts(Head(topics[DATA_PROCESSING_TOPIC]))
  /\ topics' = [topics EXCEPT ![DATA_PROCESSING_TOPIC] = Tail(@)]
  /\ UNCHANGED <<published, unacked, loader, files, db, next_row_id, first_commit>>
  /\ LoaderFrame

\* main_consumer_loop, lines 300-317: the consumer yields the next record,
\* a loading_requested of the scraper, and process_loading_request is called.
LoaderTake(r) ==
  /\ boot["loader"].pc = "serving"
  /\ loader[r].pc = "idle"
  /\ topics[DATA_PROCESSING_TOPIC] # <<>>
  /\ LET msg_data == Head(topics[DATA_PROCESSING_TOPIC])
     IN /\ LoaderAccepts(msg_data)
        /\ loader' = [loader EXCEPT ![r] =
             [pc |-> "taken", job_id |-> msg_data.job_id]]
  /\ topics' = [topics EXCEPT ![DATA_PROCESSING_TOPIC] = Tail(@)]
  /\ UNCHANGED <<published, unacked, files, db, next_row_id, first_commit>>
  /\ LoaderFrame

\* process_loading_request when load_transformed_data returns None: the file
\* does not exist, or reading or decoding it raises (lines 138-143);
\* job_failed is sent.
LoaderFileMissing(r) ==
  /\ loader[r].pc = "taken"
  /\ WorkerSend(topics, SYSTEM_NOTIFICATIONS_TOPIC,
       LoaderJobFailed(loader[r].job_id, "Failed to load or find data file"))
  /\ loader' = [loader EXCEPT ![r] =
       LoaderFailed(loader[r].job_id, Pct(90), FALSE)]
  /\ UNCHANGED <<files, db, next_row_id, first_commit>>
  /\ LoaderFrame

\* The job_progress 'Failed: ...' at current_percentage that follows the
\* job_failed of a failure path (lines 144-146, 168-170, 186-189, 195-199,
\* 275-283 and 329-331); the handler then returns to the consumer loop, after
\* closing the session and the engine on the paths that have one.
LoaderReportFailed(r, close_ok) ==
  /\ loader[r].pc = "failed"
  /\ close_ok \/ loader[r].session
  /\ WorkerSend(topics, JOB_STATUS_UPDATES_TOPIC,
       LoaderMessage(loader[r].job_id, "job_progress",
         [percentage |-> loader[r].current_percentage,
          description |-> <<"Failed", 0, 0>>]))
  /\ loader' = [loader EXCEPT ![r] =
       LoaderAfterClose(loader[r].job_id, close_ok)]
  /\ UNCHANGED <<files, db, next_row_id, first_commit>>
  /\ LoaderFrame

\* main_consumer_loop, lines 323-328: the exception that left
\* process_loading_request is caught and job_failed is sent; the 90.0
\* 'Failed: Internal loader error' follows.
LoaderInternalError(r) ==
  /\ loader[r].pc = "raised"
  /\ WorkerSend(topics, SYSTEM_NOTIFICATIONS_TOPIC,
       LoaderJobFailed(loader[r].job_id,
                       "Internal loader error processing message"))
  /\ loader' = [loader EXCEPT ![r] =
       LoaderFailed(loader[r].job_id, Pct(90), FALSE)]
  /\ UNCHANGED <<files, db, next_row_id, first_commit>>
  /\ LoaderFrame

\* process_loading_request on an empty array (lines 148-152): loading_complete
\* is sent.
LoaderEmptyFile(r) ==
  /\ loader[r].pc = "taken"
  /\ LET job_id == loader[r].job_id
     IN /\ job_id \in DOMAIN files
        /\ Decodable(files[job_id])
        /\ files[job_id] = <<>>
        /\ WorkerSend(topics, JOB_STATUS_UPDATES_TOPIC,
             LoadingComplete(job_id,
               <<"Successfully loaded 0 new jobs (empty file).", 0, 0>>))
        /\ first_commit' = FirstCommitAfter(first_commit, job_id, db)
        /\ loader' = [loader EXCEPT ![r] =
             [pc |-> "cleanup", job_id |-> job_id,
              details |-> "Failed to delete empty file",
              session |-> FALSE]]
  /\ UNCHANGED <<files, db, next_row_id>>
  /\ LoaderFrame

\* process_loading_request, lines 153-160 and 258-265: os.remove deletes the
\* file, or raises OSError and a system_warning is sent; the handler returns,
\* after the finally clause (lines 277-283) when the run has a session.
LoaderRemoveFile(r, removed, close_ok) ==
  /\ loader[r].pc = "cleanup"
  /\ close_ok \/ loader[r].session
  /\ removed => loader[r].job_id \in DOMAIN files
  /\ files' = FilesAfterRemove(files, loader[r].job_id, removed)
  /\ IF removed
     THEN UNCHANGED <<topics, published, unacked>>
     ELSE WorkerSend(topics, SYSTEM_NOTIFICATIONS_TOPIC,
            RemovalWarning(loader[r].job_id, loader[r].details))
  /\ loader' = [loader EXCEPT ![r] =
       LoaderAfterClose(loader[r].job_id, close_ok)]
  /\ UNCHANGED <<db, next_row_id, first_commit>>
  /\ LoaderFrame

\* process_loading_request, lines 138-148: load_transformed_data returns the
\* records of a file that has some.
LoaderRead(r) ==
  /\ loader[r].pc = "taken"
  /\ LET job_id == loader[r].job_id
     IN /\ job_id \in DOMAIN files
        /\ Decodable(files[job_id])
        /\ files[job_id] # <<>>
        /\ loader' = [loader EXCEPT ![r] =
             [pc |-> "loaded", job_id |-> job_id,
              job_listings |-> files[job_id]]]
  /\ UNCHANGED <<topics, published, unacked, files, db, next_row_id,
                 first_commit>>
  /\ LoaderFrame

\* What can keep process_loading_request from its database session:
\* DATABASE_URL is not set (line 163), create_engine, connect or the session
\* raises SQLAlchemyError (line 181), or something else (line 190).
DbSetupFailures == {"no_url", "SQLAlchemyError", "Exception"}

\* The error_msg of lines 164, 182 and 191.
DbSetupError(failure) ==
  CASE failure = "no_url" -> "DATABASE_URL not configured in loader service"
    [] failure = "SQLAlchemyError" -> "Database connection/initialization error"
    [] failure = "Exception" -> "Unexpected error during DB setup"

\* process_loading_request when the database session cannot be set up
\* (lines 163-167, 181-185, 190-194): job_failed is sent.
LoaderDbConnectFails(r, failure) ==
  /\ loader[r].pc = "loaded"
  /\ WorkerSend(topics, SYSTEM_NOTIFICATIONS_TOPIC,
       LoaderJobFailed(loader[r].job_id, DbSetupError(failure)))
  /\ loader' = [loader EXCEPT ![r] =
       LoaderFailed(loader[r].job_id, Pct(90), failure # "no_url")]
  /\ UNCHANGED <<files, db, next_row_id, first_commit>>
  /\ LoaderFrame

\* The except clause of lines 267-274 for an exception raised in the try of
\* line 207 at current_percentage: session.rollback() returns and job_failed
\* 'Error during data loading/commit' is sent, or it raises too, the
\* exception leaves process_loading_request (the finally clause closes the
\* session) and the except clause of main_consumer_loop (lines 323-328) sends
\* job_failed 'Internal loader error processing message' and goes on to report
\* 90.0.
LoaderExcept(r, current_percentage, rollback_ok) ==
  /\ WorkerSend(topics, SYSTEM_NOTIFICATIONS_TOPIC,
       LoaderJobFailed(loader[r].job_id,
         IF rollback_ok THEN "Error during data loading/commit"
         ELSE "Internal loader error processing message"))
  /\ loader' = [loader EXCEPT ![r] =
       LoaderFailed(loader[r].job_id,
                    IF rollback_ok THEN current_percentage ELSE Pct(90),
                    rollback_ok)]

\* process_loading_request, lines 174-210: the database is connected to and
\* the keys of the rows it holds are fetched.
LoaderQuery(r) ==
  /\ loader[r].pc = "loaded"
  /\ loader' = [loader EXCEPT ![r] =
       [pc |-> "queried", job_id |-> loader[r].job_id,
        job_listings |-> loader[r].job_listings,
        existing_job_keys |-> ExistingJobKeys(db)]]
  /\ UNCHANGED <<topics, published, unacked, files, db, next_row_id,
                 first_commit>>
  /\ LoaderFrame

\* The query of lines 209-210 raises: the except clause, at 90%.
LoaderQueryFails(r, rollback_ok) ==
  /\ loader[r].pc = "loaded"
  /\ LoaderExcept(r, Pct(90), rollback_ok)
  /\ UNCHANGED <<files, db, next_row_id, first_commit>>
  /\ LoaderFrame

\* process_loading_request, lines 212-228: 91% is reported; the records are
\* then processed against the keys fetched.
LoaderPrepare(r) ==
  /\ loader[r].pc = "queried"
  /\ LET l == loader[r]
         done == ProcessListings(l.job_listings,
                   [keys |-> l.existing_job_keys, objects_to_add |-> <<>>,
                    new_jobs_count |-> 0, duplicates_count |-> 0])
     IN /\ WorkerSend(topics, JOB_STATUS_UPDATES_TOPIC,
             LoaderMessage(l.job_id, "job_progress",
               [percentage |-> Pct(91),
                description |-> <<"Preparing to load potential jobs",
                                  Len(l.job_listings), 0>>]))
        /\ loader' = [loader EXCEPT ![r] =
             [pc |-> "precommit", job_id |-> l.job_id,
              job_listings |-> l.job_listings,
              objects_to_add |-> done.objects_to_add,
              new_jobs_count |-> done.new_jobs_count,
              duplicates_count |-> done.duplicates_count]]
  /\ UNCHANGED <<files, db, next_row_id, first_commit>>
  /\ LoaderFrame

\* session.add_all raises (line 233): the except clause, at 91%.
LoaderAddFails(r, rollback_ok) ==
  /\ loader[r].pc = "precommit"
  /\ loader[r].objects_to_add # <<>>
  /\ LoaderExcept(r, Pct(91), rollback_ok)
  /\ UNCHANGED <<files, db, next_row_id, first_commit>>
  /\ LoaderFrame

\* process_loading_request, lines 230-245: session.add_all, then 98% is
\* reported.
LoaderReportCommit(r) ==
  /\ loader[r].pc = "precommit"
  /\ LET l == loader[r]
     IN WorkerSend(topics, JOB_STATUS_UPDATES_TOPIC,
          LoaderMessage(l.job_id, "job_progress",
            [percentage |-> Pct(98),
             description |-> CommitMessage(l.duplicates_count,
                                           l.new_jobs_count)]))
  /\ loader' = [loader EXCEPT ![r].pc = "commit"]
  /\ UNCHANGED <<files, db, next_row_id, first_commit>>
  /\ LoaderFrame

\* session.commit() succeeds (line 248).
LoaderCommit(r) ==
  /\ loader[r].pc = "commit"
  /\ LET l == loader[r]
         rows == CommittedRows(db, l.objects_to_add, next_row_id)
     IN /\ ~UrlConflict(db, l.objects_to_add)
        /\ db' = rows
        /\ next_row_id' = next_row_id + Len(l.objects_to_add)
        /\ first_commit' = FirstCommitAfter(first_commit, l.job_id, rows)
  /\ loader' = [loader EXCEPT ![r].pc = "committed"]
  /\ UNCHANGED <<topics, published, unacked, files>>
  /\ LoaderFrame

\* A commit that fails after the first object is stored and is not rolled
\* back.
LoaderCommitFails_first_row_kept(r, rollback_ok) ==
  /\ loader[r].pc = "commit"
  /\ LET l == loader[r]
         kept == IF l.objects_to_add = <<>> THEN <<>>
                 ELSE <<l.objects_to_add[1]>>
     IN /\ LoaderExcept(r, Pct(98), rollback_ok)
        /\ db' = CommittedRows(db, kept, next_row_id)
        /\ next_row_id' = next_row_id + Len(kept)
  /\ UNCHANGED <<files, first_commit>>
  /\ LoaderFrame

\* session.commit() raises (the unique job_url, or the database fails): the
\* except clause, at 98%; nothing of the transaction is stored.
LoaderCommitFails(r, rollback_ok) ==
  /\ loader[r].pc = "commit"
  /\ LoaderExcept(r, Pct(98), rollback_ok)
  /\ UNCHANGED <<files, db, next_row_id, first_commit>>
  /\ LoaderFrame

\* process_loading_request, lines 250-255: loading_complete is reported.
LoaderComplete(r) ==
  /\ loader[r].pc = "committed"
  /\ LET l == loader[r]
     IN /\ WorkerSend(topics, JOB_STATUS_UPDATES_TOPIC,
             LoadingComplete(l.job_id,
               <<"Successfully loaded new jobs into the database.",
                 l.new_jobs_count, 0>>))
        /\ loader' = [loader EXCEPT ![r] =
             [pc |-> "cleanup", job_id |-> l.job_id,
              details |-> "Failed to delete processed file",
              session |-> TRUE]]
  /\ UNCHANGED <<files, db, next_row_id, first_commit>>
  /\ LoaderFrame

\* ------------------------------------------------- gateway: jobs endpoints
\* delete_job / update_job_progress: `except Exception` around the whole body
\* answers 500 whatever was raised in it, an HTTPException included.
JobsExcept(exc) == 500

\* delete_job's status code: the row exists (found), the database raises
\* (db_error)
DeleteJobCode(found, db_error) ==
  IF db_error THEN JobsExcept("SQLAlchemyError")
  ELSE IF ~found THEN JobsExcept("HTTPException")
  ELSE 204

\* update_job_progress's status code
UpdateJobProgressCode(found, db_error) ==
  IF db_error THEN JobsExcept("SQLAlchemyError")
  ELSE IF ~found THEN JobsExcept("HTTPException")
  ELSE 200

JobsFrame ==
  UNCHANGED <<topics, published, unacked, env_api_key, next_job,
              api, job_statuses, failed_seen, scraper, loader, files,
              next_row_id, first_commit,
              boot, ws, consumer_thread>>

\* The progress values clients send.
ProgressValues == {"Haven't Applied", "Applied", "Interview"}

\* The job ids requests name: the ids of the rows and one more.
RequestIds == 1..(MaxRowId + 1)

\* The sessions get_db opens for the requests of the jobs endpoints. The
\* endpoints are plain functions, which the server runs in pool threads: a
\* request makes two round trips to the database, its query and its commit,
\* and other requests make theirs in between.
DbSessions == {"a", "b"}

\* A pool thread without a request between its query and its commit.
SessionIdle == [endpoint |-> "none"]

NoSessions == [s \in DbSessions |-> SessionIdle]

\* delete_job, lines 229-234: the query. A row that is found is held in the
\* session; without one, or when the query raises, the except clause answers.
delete_job_query(s, job_id, db_error) ==
  LET found == \E row \in db : row.job_id = job_id
  IN /\ boot["gateway"].pc = "serving"
     /\ db_sessions[s] = SessionIdle
     /\ IF db_error \/ ~found
        THEN /\ http_resp' = [endpoint |-> "delete_job",
                              code |-> DeleteJobCode(found, db_error),
                              job_id |-> job_id]
             /\ UNCHANGED db_sessions
        ELSE /\ db_sessions' = [db_sessions EXCEPT ![s] =
                  [endpoint |-> "delete_job", job_id |-> job_id]]
             /\ UNCHANGED http_resp
     /\ UNCHANGED db
     /\ JobsFrame

\* delete_job, lines 236-243: db.delete(job) and db.commit(). The DELETE is
\* emitted for the row's key and the commit passes whether the row is still
\* there or another request has deleted it since the query (a DELETE that
\* matches no row is a warning of the session, not an exception).
delete_job_commit(s, db_error) ==
  LET job_id == db_sessions[s].job_id
      code == DeleteJobCode(TRUE, db_error)
  IN /\ db_sessions[s].endpoint = "delete_job"
     /\ http_resp' = [endpoint |-> "delete_job", code |-> code,
                      job_id |-> job_id]
     /\ db' = IF code = 204 THEN {row \in db : row.job_id # job_id} ELSE db
     /\ db_sessions' = [db_sessions EXCEPT ![s] = SessionIdle]
     /\ JobsFrame

\* DELETE /jobs/{job_id}: a step of the request in session s.
delete_job(s) ==
  \/ \E job_id \in RequestIds, db_error \in BOOLEAN :
       delete_job_query(s, job_id, db_error)
  \/ \E db_error \in BOOLEAN : delete_job_commit(s, db_error)

\* update_job_progress, lines 258-263: the query. The row found is held in
\* the session as it was read.
update_job_progress_query(s, job_id, progress, db_error) ==
  LET found == \E row \in db : row.job_id = job_id
  IN /\ boot["gateway"].pc = "serving"
     /\ db_sessions[s] = SessionIdle
     /\ IF db_error \/ ~found
        THEN /\ http_resp' = [endpoint |-> "update_job_progress",
                              code |-> UpdateJobProgressCode(found, db_error),
                              job_id |-> job_id]
             /\ UNCHANGED db_sessions
        ELSE /\ db_sessions' = [db_sessions EXCEPT ![s] =
                  [endpoint |-> "update_job_progress", job_id |-> job_id,
                   job |-> CHOOSE row \in db : row.job_id = job_id,
                   progress |-> progress]]
             /\ UNCHANGED http_resp
     /\ UNCHANGED db
     /\ JobsFrame

\* update_job_progress, lines 265-277: job.progress = update.progress and
\* db.commit(). An UPDATE is emitted only when the value differs from the
\* one the query read: with the same value the commit passes and the table
\* stays as the other requests left it, the row deleted or patched since
\* included. An UPDATE that matches no row, the row having been deleted since
\* the query, raises (StaleDataError) and the except clause answers.
update_job_progress_commit(s, db_error) ==
  LET u == db_sessions[s]
      modified == u.job.progress # u.progress
      matched == \E row \in db : row.job_id = u.job_id
      code == IF modified /\ ~matched THEN JobsExcept("StaleDataError")
              ELSE UpdateJobProgressCode(TRUE, db_error)
  IN /\ u.endpoint = "update_job_progress"
     /\ http_resp' = [endpoint |-> "update_job_progress", code |-> code,
                      job_id |-> u.job_id]
     /\ db' = IF code = 200 /\ modified
              THEN {IF row.job_id = u.job_id
                    THEN [row EXCEPT !.progress = u.progress] ELSE row :
                    row \in db}
              ELSE db
     /\ db_sessions' = [db_sessions EXCEPT ![s] = SessionIdle]
     /\ JobsFrame

\* PATCH /jobs/{job_id}/progress: a step of the request in session s.
update_job_progress(s) ==
  \/ \E job_id \in RequestIds, progress \in ProgressValues,
         db_error \in BOOLEAN :
       update_job_progress_query(s, job_id, progress, db_error)
  \/ \E db_error \in BOOLEAN : update_job_progress_commit(s, db_error)

\* --------------------------------------------- gateway: push-channel clients
\* What a call of websocket.send_json can do: return, or raise.
SendOutcomes == {"sent", "WebSocketDisconnect", "RuntimeError", "Exception"}

\* ConnectionManager.disconnect
Disconnect(active_connections, c) ==
  SelectSeq(active_connections, LAMBDA x : x # c)

\* send_personal_message: the connection list after one send_json call
AfterSend(active_connections, c, outcome) ==
  IF outcome \in {"WebSocketDisconnect", "RuntimeError"}
  THEN Disconnect(active_connections, c)
  ELSE active_connections

\* websocket_endpoint between connect's append and the send_json call of
\* send_initial_state, with an await that lets other coroutines run
LoopFree_preempted == TRUE

\* The event loop can start or resume another coroutine: no endpoint is
\* between the append of manager.connect and the send_json call of
\* send_initial_state, a stretch of websocket_endpoint without a suspension.
LoopFree == \A c \in WsClients : ws.pc[c] # "accepted"

WsFrame ==
  UNCHANGED <<topics, published, unacked, env_api_key, db_sessions, next_job, api, http_resp,
              job_statuses, failed_seen, scraper, loader, files, db,
              next_row_id, first_commit, boot, consumer_thread>>

\* websocket_endpoint up to the end of the `with job_status_lock` block:
\* manager.connect appends the accepted socket, then the map is copied.
websocket_accept(c) ==
  /\ boot["gateway"].pc = "serving"
  /\ LoopFree
  /\ ws.pc[c] = "closed"
  /\ ws' = [ws EXCEPT !.active_connections = Append(@, c),
                      !.pc[c] = "accepted",
                      !.current_statuses[c] = job_statuses]
  /\ WsFrame

\* websocket_endpoint: manager.send_initial_state up to the suspension at
\* `await websocket.send_json` (websockets.py line 36), the client being on
\* active_connections already. job_statuses.copy() copies the map, not its
\* entries, which the consumer thread updates in place without regard to the
\* send: the message carries each copied entry as it was (raced = FALSE) or
\* as it is now.
send_initial_state(c, raced) ==
  /\ ws.pc[c] = "accepted"
  /\ LET current_statuses == ws.current_statuses[c]
         jobs == IF raced
                 THEN [j \in DOMAIN current_statuses |->
                         Get(job_statuses, j, current_statuses[j])]
                 ELSE current_statuses
         message == [type |-> "initial_state", jobs |-> jobs]
     IN ws' = [ws EXCEPT
                 !.sent[c] = Append(@, [message |-> message,
                                        outcome |-> "pending"]),
                 !.pc[c] = "sending",
                 !.current_statuses[c] = EmptyDict]
  /\ WsFrame

\* send_personal_message, lines 36-45, resumed for the i-th send_json call
\* on c: the call returns or raises, WebSocketDisconnect and RuntimeError
\* take the client off the list, and any other exception is logged. The
\* pending calls return in any order. When the call was the one of
\* send_initial_state, websocket_endpoint enters its receive loop.
send_json_returns(c, i, outcome) ==
  /\ LoopFree
  /\ i \in 1..Len(ws.sent[c])
  /\ ws.sent[c][i].outcome = "pending"
  /\ ws' = [ws EXCEPT
              !.sent[c][i].outcome = outcome,
              !.active_connections = AfterSend(@, c, outcome),
              !.pc[c] = IF ws.sent[c][i].message.type = "initial_state"
                        THEN "open" ELSE @]
  /\ WsFrame

\* websocket_endpoint: receive_text raises WebSocketDisconnect (or another
\* exception), manager.disconnect.
websocket_disconnect(c) ==
  /\ LoopFree
  /\ ws.pc[c] = "open"
  /\ ws' = [ws EXCEPT !.active_connections = Disconnect(@, c),
                      !.pc[c] = "gone"]
  /\ WsFrame

\* The send_personal_message tasks asyncio.gather creates for `message`, one
\* for each connection of the copied list, in the order of the list.
GatherTasks(message, connections_to_broadcast) ==
  [i \in 1..Len(connections_to_broadcast) |->
     [websocket |-> connections_to_broadcast[i], message |-> message]]

\* A broadcast that sends to the first connection of the list only.
broadcast_first_connection_only ==
  /\ LoopFree
  /\ ws.scheduled # <<>>
  /\ LET message == Head(ws.scheduled)
         connections_to_broadcast ==
           IF ws.active_connections = <<>> THEN <<>>
           ELSE <<Head(ws.active_connections)>>
     IN ws' = [ws EXCEPT
                 !.scheduled = Tail(@),
                 !.tasks = @ \o GatherTasks(message, connections_to_broadcast)]
  /\ WsFrame

\* ConnectionManager.broadcast, lines 48-56, started by the event loop for
\* the next scheduled message: nothing is done for an empty list, and else
\* the list is copied, a task is created for every connection of the copy
\* and the coroutine is suspended in asyncio.gather until all have ended
\* (lines 58-61 then only log).
broadcast ==
  /\ LoopFree
  /\ ws.scheduled # <<>>
  /\ LET message == Head(ws.scheduled)
         connections_to_broadcast == ws.active_connections
     IN ws' = [ws EXCEPT
                 !.scheduled = Tail(@),
                 !.tasks = @ \o GatherTasks(message, connections_to_broadcast)]
  /\ WsFrame

\* The event loop starts the oldest task of a broadcast: send_personal_message
\* up to the suspension at `await websocket.send_json` (line 36), for a
\* connection of the copied list, on active_connections still or not.
send_personal_message ==
  /\ LoopFree
  /\ ws.tasks # <<>>
  /\ LET task == Head(ws.tasks)
     IN ws' = [ws EXCEPT
                 !.tasks = Tail(@),
                 !.sent[task.websocket] =
                    Append(@, [message |-> task.message,
                               outcome |-> "pending"])]
  /\ WsFrame

\* --------------------------------------------------------- other producers
\* Events on scraping-jobs that the gateway did not build: a job_requested
\* without parameters, with empty parameters, and another event type.
ForeignScrapingEvents ==
  {[job_id |-> ForeignJobId, event_type |-> "job_requested",
    timestamp |-> "ts"],
   [job_id |-> ForeignJobId, event_type |-> "job_requested",
    timestamp |-> "ts", parameters |-> EmptyDict],
   [job_id |-> ForeignJobId, event_type |-> "job_cancelled",
    timestamp |-> "ts"]}

\* A loading_requested for a job that has no data file, and one that is not
\* from the scraper.
ForeignLoadingEvents ==
  {LoadingRequested(ForeignJobId),
   [job_id |-> ForeignJobId, event_type |-> "loading_requested",
    source |-> "gateway", timestamp |-> "ts"]}

\* ------------------------------------------------------- the whole pipeline
Init ==
  /\ topics = [t \in Topics |-> <<>>]
  /\ published = {}
  /\ env_api_key \in {"", "key"}
  /\ db_sessions = NoSessions
  /\ unacked = <<>>
  /\ next_job = 1
  /\ api = ApiIdle
  /\ http_resp = EmptyDict
  /\ job_statuses = EmptyDict
  /\ failed_seen = {}
  /\ scraper = ScraperIdle
  /\ loader = [r \in LoaderIds |-> LoaderIdle]
  /\ files = EmptyDict
  /\ db = {}
  /\ next_row_id = 1
  /\ first_commit = EmptyDict
  /\ boot = [s \in Services |-> Started]
  /\ ws = WsInit
  /\ consumer_thread = ThreadRunning

ScraperNext ==
  \/ ScraperConsume
  \/ ScraperRefuse
  \/ ScraperReportFailed
  \/ ScraperStart
  \/ ScraperStartSearch
  \/ ScraperQueryTitle
  \/ \E outcome \in PageEnds : ScraperPageEnds(outcome)
  \/ \E listing \in ListingPool : ScraperKeepListing(listing)
  \/ ScraperReportSaving
  \/ ScraperSaveOk
  \/ \E opened \in BOOLEAN : ScraperSaveFails(opened)
  \/ ScraperReportRequest
  \/ ScraperRequestLoading
  \/ ScraperFinish

\* process_loading_request on a record main_consumer_loop accepts
LoaderHandle(r) ==
  \/ LoaderTake(r)
  \/ LoaderFileMissing(r)
  \/ \E close_ok \in BOOLEAN : LoaderReportFailed(r, close_ok)
  \/ LoaderInternalError(r)
  \/ LoaderEmptyFile(r)
  \/ \E removed, close_ok \in BOOLEAN : LoaderRemoveFile(r, removed, close_ok)
  \/ LoaderRead(r)
  \/ \E failure \in DbSetupFailures : LoaderDbConnectFails(r, failure)
  \/ LoaderQuery(r)
  \/ \E rollback_ok \in BOOLEAN : LoaderQueryFails(r, rollback_ok)
  \/ LoaderPrepare(r)
  \/ \E rollback_ok \in BOOLEAN : LoaderAddFails(r, rollback_ok)
  \/ LoaderReportCommit(r)
  \/ LoaderCommit(r)
  \/ \E rollback_ok \in BOOLEAN : LoaderCommitFails(r, rollback_ok)
  \/ LoaderComplete(r)

Next ==
  \/ \E payload \in Payloads, ack \in BOOLEAN :
       TriggerJobPipeline(payload, ack)
  \/ TriggerRecord
  \/ Consumer
  \/ ScraperNext
  \/ \E r \in LoaderIds : LoaderHandle(r)

Spec == Init /\ [][Next]_vars

\* ------------------------------------- the gateway and the scraper alone
NextGateway ==
  \/ \E payload \in Payloads, ack \in BOOLEAN :
       TriggerJobPipeline(payload, ack)
  \/ TriggerRecord
  \/ Consumer
  \/ ScraperNext

SpecGateway == Init /\ [][NextGateway]_vars

\* ------------------------------------------------ the jobs endpoints alone
\* A row of core.jobs as the loader persisted it and a client may have
\* patched it.  Rows differ in their keys.
StoredRow(job_id, progress) ==
  [job_id |-> job_id, title |-> [i \in 1..job_id |-> "X"],
   company_name |-> <<"A">>, location |-> <<"P">>, job_url |-> "None",
   date_posted |-> "None", progress |-> progress, skills |-> <<>>]

\* Tables with at most one row per job_id in 1..MaxRowId.
StoredTables ==
  {{StoredRow(i, f[i]) : i \in {k \in 1..MaxRowId : f[k] # "absent"}} :
     f \in [1..MaxRowId -> ProgressValues \cup {"absent"}]}

InitDb ==
  /\ topics = [t \in Topics |-> <<>>]
  /\ published = {}
  /\ env_api_key = "key"
  /\ db_sessions = NoSessions
  /\ unacked = <<>>
  /\ next_job = 1
  /\ api = ApiIdle
  /\ http_resp = EmptyDict
  /\ job_statuses = EmptyDict
  /\ failed_seen = {}
  /\ scraper = ScraperIdle
  /\ loader = [r \in LoaderIds |-> LoaderIdle]
  /\ files = EmptyDict
  /\ db \in StoredTables
  /\ next_row_id = MaxRowId + 1
  /\ first_commit = EmptyDict
  /\ boot = [s \in Services |-> Started]
  /\ ws = WsInit
  /\ consumer_thread = ThreadRunning

NextDb ==
  \/ \E s \in DbSessions : delete_job(s)
  \/ \E s \in DbSessions : update_job_progress(s)

SpecDb == InitDb /\ [][NextDb]_vars

\* -------------------------------------------------------- the loader alone
\* Records of a data file: a listing the scraper kept, a second spelling of
\* it with a url and a timestamped date, one without location, one with the
\* url of the second and one with a blank title.
FileRecords ==
  {listing \in ListingPool : listing.location # <<>>} \cup
  {[title |-> <<" ", "x">>, company |-> <<"A", " ">>, location |-> <<"P">>,
    url |-> "u1", date_posted |-> <<"2024-01-02", "T", "10:00">>,
    extracted_skills |-> <<<<"s">>, <<"s", " ">>>>],
   [title |-> <<"Y">>, company |-> <<"B">>, location |-> <<>>,
    url |-> "None", extracted_skills |-> <<>>],
   [title |-> <<"Y">>, company |-> <<"B">>, location |-> <<"P">>,
    url |-> "u1", extracted_skills |-> <<>>],
   [title |-> <<" ">>, company |-> <<"B">>, location |-> <<"P">>,
    url |-> "None", extracted_skills |-> <<>>]}

\* Data files: arrays of up to MaxFileLen records.
RECURSIVE FilesOfLen(_)
FilesOfLen(n) ==
  IF n = 0 THEN {<<>>}
  ELSE {Append(f, rec) : f \in FilesOfLen(n - 1), rec \in FileRecords}

DataFiles == UNION {FilesOfLen(n) : n \in 0..MaxFileLen}

\* n deliveries of the loading_requested of job_id
Deliveries(job_id, n) == [i \in 1..n |-> LoadingRequested(job_id)]

\* The records waiting on data-processing when the loader starts: the
\* deliveries for job 1, or a record of another producer and one delivery.
LoadingBacklogs ==
  {Deliveries(1, n) : n \in 1..MaxDeliveries}
  \cup {<<f>> \o Deliveries(1, 1) : f \in ForeignLoadingEvents}

\* The records of a backlog the loader accepts.
Requests(backlog) ==
  Cardinality({i \in 1..Len(backlog) : LoaderAccepts(backlog[i])})

\* The file of job 1 is on disk and its loading_requested waits: a file of up
\* to MaxFileLen records delivered once, or one shorter by a record for
\* every further delivery.
InitLoader ==
  /\ \E backlog \in LoadingBacklogs :
       /\ topics = [t \in Topics |->
                      IF t = DATA_PROCESSING_TOPIC THEN backlog ELSE <<>>]
       /\ published = {[topic |-> DATA_PROCESSING_TOPIC,
                        msg |-> Logged(backlog[i])] : i \in 1..Len(backlog)}
  /\ env_api_key = "key"
  /\ db_sessions = NoSessions
  /\ unacked = <<>>
  /\ next_job = NumJobs + 1
  /\ api = ApiIdle
  /\ http_resp = EmptyDict
  /\ job_statuses = EmptyDict
  /\ failed_seen = {}
  /\ scraper = ScraperIdle
  /\ loader = [r \in LoaderIds |-> LoaderIdle]
  /\ \E file \in DataFiles :
       /\ Len(file) + Requests(topics[DATA_PROCESSING_TOPIC]) <= MaxFileLen + 1
       /\ files = DictSet(EmptyDict, 1, file)
  /\ db \in {{}, {StoredRow(1, "Applied")}}
  /\ next_row_id = MaxRowId + 1
  /\ first_commit = EmptyDict
  /\ boot = [s \in Services |-> Started]
  /\ ws = WsInit
  /\ consumer_thread = ThreadRunning

LoaderNext(r) ==
  \/ LoaderSkip(r)
  \/ LoaderHandle(r)

NextLoader == \E r \in LoaderIds : LoaderNext(r)

SpecLoader == InitLoader /\ [][NextLoader]_vars

\* ------------------------------------------------------ two loader replicas
\* Two replicas of the loader in one consumer group, on one database.
LoaderReplicas == {1, 2}

\* The data files of the jobs two replicas work on: an empty array, or one
\* record, a listing the scraper kept or its second spelling.
ReplicaFiles ==
  {<<>>} \cup {<<rec>> : rec \in {f \in FileRecords :
                                   JobKey(f.title, f.company)
                                     = JobKey(<<"X">>, <<"A">>)}}

\* The loading_requested events of two jobs wait on data-processing, behind a
\* record of another producer; the file of the first job is there, the file
\* of the second may be missing.
InitReplicas ==
  /\ \E backlog \in {<<[job_id |-> 1, event_type |-> "loading_requested",
                         source |-> "gateway", timestamp |-> "ts"],
                        LoadingRequested(1), LoadingRequested(2)>>} :
       /\ topics = [t \in Topics |->
                      IF t = DATA_PROCESSING_TOPIC THEN backlog ELSE <<>>]
       /\ published = {[topic |-> DATA_PROCESSING_TOPIC,
                        msg |-> Logged(backlog[i])] : i \in 1..Len(backlog)}
  /\ env_api_key = "key"
  /\ db_sessions = NoSessions
  /\ unacked = <<>>
  /\ next_job = 3
  /\ api = ApiIdle
  /\ http_resp = EmptyDict
  /\ job_statuses = EmptyDict
  /\ failed_seen = {}
  /\ scraper = ScraperIdle
  /\ loader = [r \in LoaderReplicas |-> LoaderIdle]
  /\ \E first \in ReplicaFiles :
       \/ files = DictSet(EmptyDict, 1, first)
       \/ \E second \in ReplicaFiles :
            files = DictSet(DictSet(EmptyDict, 1, first), 2, second)
  /\ db = {}
  /\ next_row_id = 1
  /\ first_commit = EmptyDict
  /\ boot = [s \in Services |-> Started]
  /\ ws = WsInit
  /\ consumer_thread = ThreadRunning

NextReplicas == \E r \in LoaderReplicas : LoaderNext(r)

SpecReplicas == InitReplicas /\ [][NextReplicas]_vars

\* ------------------------------------------------------- the scraper alone
\* job_requested events as producers of scraping-jobs can build them for one
\* job id: the gateway's for a valid body, and events with parameters the
\* gateway's validation would have refused or that parse to no title.
ScrapingEvents ==
  {JobRequestedMessage(1, "key", GoodPayload(n)) : n \in 0..MaxJobsParam}
  \cup {JobRequestedMessage(1, "key",
                            [GoodPayload(1) EXCEPT !.job_titles = <<" ">>]),
        JobRequestedMessage(1, "key",
                            [GoodPayload(1) EXCEPT
                               !.job_titles = <<",", " ", "B", ",">>]),
        JobRequestedMessage(1, "", GoodPayload(1))}

\* The records waiting on scraping-jobs when the scraper starts.
ScrapingBacklogs ==
  {<<e>> : e \in ScrapingEvents \cup ForeignScrapingEvents}
  \cup {<<e, f>> : e \in ScrapingEvents, f \in ForeignScrapingEvents}
  \cup {<<f, e>> : e \in ScrapingEvents, f \in ForeignScrapingEvents}

\* The scraper starts with one of `backlogs` waiting on scraping-jobs.
ScraperStarts(backlogs) ==
  /\ \E backlog \in backlogs :
       /\ topics = [t \in Topics |->
                      IF t = SCRAPING_JOBS_TOPIC THEN backlog ELSE <<>>]
       /\ published = {[topic |-> SCRAPING_JOBS_TOPIC,
                        msg |-> Logged(backlog[i])] : i \in 1..Len(backlog)}
  /\ env_api_key = "key"
  /\ db_sessions = NoSessions
  /\ unacked = <<>>
  /\ next_job = 1
  /\ api = ApiIdle
  /\ http_resp = EmptyDict
  /\ job_statuses = EmptyDict
  /\ failed_seen = {}
  /\ scraper = ScraperIdle
  /\ loader = [r \in LoaderIds |-> LoaderIdle]
  /\ files = EmptyDict
  /\ db = {}
  /\ next_row_id = 1
  /\ first_commit = EmptyDict
  /\ boot = [s \in Services |-> Started]
  /\ ws = WsInit
  /\ consumer_thread = ThreadRunning

InitScraper == ScraperStarts(ScrapingBacklogs)

NextScraper ==
  \/ ScraperNext
  \/ Consumer

SpecScraper == InitScraper /\ [][NextScraper]_vars

\* The scraper alone: nobody consumes what it publishes.
SpecScraperAlone == InitScraper /\ [][ScraperNext]_vars

\* ------------------------------------------- the two workers, no gateway
NextWorkers ==
  \/ ScraperNext
  \/ \E r \in LoaderIds : LoaderHandle(r)

\* One record waits on scraping-jobs.
InitWorkers ==
  ScraperStarts({<<e>> : e \in ScrapingEvents \cup ForeignScrapingEvents})

SpecWorkers == InitWorkers /\ [][NextWorkers]_vars

\* --------------------------------------- the services from process start
\* One request for a single title and one listing waits on scraping-jobs
\* while the services start, or one with the max_jobs of 0 the scraper
\* refuses.
InitStartup ==
  /\ \E n \in 0..1 :
       LET backlog == <<JobRequestedMessage(1, "key",
                          [GoodPayload(n) EXCEPT !.job_titles = <<"A">>])>>
       IN /\ topics = [t \in Topics |->
                         IF t = SCRAPING_JOBS_TOPIC THEN backlog ELSE <<>>]
          /\ published = {[topic |-> SCRAPING_JOBS_TOPIC,
                           msg |-> Logged(backlog[1])]}
  /\ env_api_key = "key"
  /\ db_sessions = NoSessions
  /\ unacked = <<>>
  /\ next_job = 1
  /\ api = ApiIdle
  /\ http_resp = EmptyDict
  /\ job_statuses = EmptyDict
  /\ failed_seen = {}
  /\ scraper = ScraperIdle
  /\ loader = [r \in LoaderIds |-> LoaderIdle]
  /\ files = EmptyDict
  /\ db = {}
  /\ next_row_id = 1
  /\ first_commit = EmptyDict
  /\ boot = [s \in Services |-> Starting(s)]
  /\ ws = WsInit
  /\ consumer_thread = ThreadNotStarted

Connect ==
  \E outcome \in ConnectOutcomes :
    \/ api_create_kafka_producer(outcome)
    \/ api_create_kafka_consumer(outcome)
    \/ get_kafka_producer(outcome)
    \/ get_kafka_consumer(outcome)
    \/ loader_create_kafka_producer(outcome)
    \/ loader_create_kafka_consumer(outcome)

NextStartup ==
  \/ Connect
  \/ ScraperNext
  \/ \E r \in LoaderIds : LoaderHandle(r)
  \/ Consumer

SpecStartup == InitStartup /\ [][NextStartup]_vars

\* The services from process start without the steps of the gateway's
\* consumer thread, which touch neither a connect routine nor a worker: the
\* events the workers publish stay on their topics.
NextWorkersStartup ==
  \/ Connect
  \/ ScraperNext
  \/ \E r \in LoaderIds : LoaderHandle(r)

SpecWorkersStartup == InitStartup /\ [][NextWorkersStartup]_vars

\* ------------------------------------------- the gateway's consumer alone
\* Records of job 1 on job-status-updates: the four handled event types, a
\* progress event without percentage, one of the loader's, an event type
\* that belongs to the other topic and a record without job_id.
StatusEvents ==
  {[job_id |-> 1, event_type |-> "job_started", source |-> "scraper",
    timestamp |-> "ts"],
   ScraperProgress(1, Pct(50), <<"Processing job", 1, 2>>),
   [job_id |-> 1, event_type |-> "job_progress", source |-> "scraper",
    timestamp |-> "ts"],
   LoaderMessage(1, "job_progress", [percentage |-> Pct(91)]),
   LoaderMessage(1, "loading_progress", [percentage |-> Pct(98)]),
   LoaderMessage(1, "loading_progress", EmptyDict),
   LoaderMessage(1, "loading_complete", [percentage |-> Pct(100)]),
   LoaderMessage(1, "job_failed", [error_details |-> "boom"]),
   [event_type |-> "job_progress", source |-> "scraper", timestamp |-> "ts",
    percentage |-> Pct(50)]}

\* Records on system-notifications: a failure, a warning, no job_id.
NotificationEvents ==
  {LoaderMessage(1, "job_failed", [error_details |-> "boom"]),
   LoaderMessage(1, "system_warning",
                 [details |-> "Failed to delete processed file"]),
   [event_type |-> "job_failed", source |-> "loader", timestamp |-> "ts"]}

\* The sequences of at most n elements of S.
RECURSIVE SeqsUpTo(_, _)
SeqsUpTo(S, n) ==
  IF n = 0 THEN {<<>>}
  ELSE LET shorter == SeqsUpTo(S, n - 1)
       IN shorter \cup {Append(q, e) : q \in shorter, e \in S}

\* The status map after the consumer handled a progress record of another
\* job.
OtherJobRunning ==
  StatusesAfterRecord(EmptyDict, JOB_STATUS_UPDATES_TOPIC,
    ScraperProgress(ForeignJobId, Pct(50), <<"Scraped job", 1, 2>>))

InitConsumer ==
  /\ \E status \in SeqsUpTo(StatusEvents, MaxBacklog),
        notification \in SeqsUpTo(NotificationEvents, 1) :
       /\ topics = [t \in Topics |->
                      CASE t = JOB_STATUS_UPDATES_TOPIC -> status
                        [] t = SYSTEM_NOTIFICATIONS_TOPIC -> notification
                        [] OTHER -> <<>>]
       /\ published =
            {[topic |-> JOB_STATUS_UPDATES_TOPIC, msg |-> Logged(status[i])] :
               i \in 1..Len(status)}
            \cup {[topic |-> SYSTEM_NOTIFICATIONS_TOPIC,
                   msg |-> Logged(notification[i])] :
                    i \in 1..Len(notification)}
  /\ env_api_key = "key"
  /\ db_sessions = NoSessions
  /\ unacked = <<>>
  /\ next_job = 2
  /\ api = ApiIdle
  /\ http_resp = EmptyDict
  /\ job_statuses \in {EmptyDict, DictSet(EmptyDict, 1, RequestedEntry),
                      DictSet(OtherJobRunning, 1, RequestedEntry)}
  /\ failed_seen = {}
  /\ scraper = ScraperIdle
  /\ loader = [r \in LoaderIds |-> LoaderIdle]
  /\ files = EmptyDict
  /\ db = {}
  /\ next_row_id = 1
  /\ first_commit = EmptyDict
  /\ boot = [s \in Services |-> Started]
  /\ ws = WsInit
  /\ consumer_thread = ThreadRunning

NextConsumer == Consumer

SpecConsumer == InitConsumer /\ [][NextConsumer]_vars

\* ---------------------------------------- the consumer and the push channel
\* Two status records of job 1 wait for the consumer while clients connect.
InitPush ==
  /\ topics = [t \in Topics |->
                 IF t = JOB_STATUS_UPDATES_TOPIC
                 THEN <<ScraperProgress(1, Pct(50), <<"Processing job", 1, 2>>),
                        LoaderMessage(1, "loading_complete",
                                      [percentage |-> Pct(100)])>>
                 ELSE <<>>]
  /\ published = {}
  /\ env_api_key = "key"
  /\ db_sessions = NoSessions
  /\ unacked = <<>>
  /\ next_job = 2
  /\ api = ApiIdle
  /\ http_resp = EmptyDict
  /\ job_statuses = DictSet(EmptyDict, 1, RequestedEntry)
  /\ failed_seen = {}
  /\ scraper = ScraperIdle
  /\ loader = [r \in LoaderIds |-> LoaderIdle]
  /\ files = EmptyDict
  /\ db = {}
  /\ next_row_id = 1
  /\ first_commit = EmptyDict
  /\ boot = [s \in Services |-> Started]
  /\ ws = WsInit
  /\ consumer_thread = ThreadRunning

\* The steps of the endpoint coroutines of the push channel.
WsEndpoint ==
  \/ \E c \in WsClients : websocket_accept(c)
  \/ \E c \in WsClients, raced \in BOOLEAN : send_initial_state(c, raced)
  \/ \E c \in WsClients, outcome \in SendOutcomes :
       \E i \in 1..Len(ws.sent[c]) : send_json_returns(c, i, outcome)
  \/ \E c \in WsClients : websocket_disconnect(c)

NextPush ==
  \/ Consumer
  \/ WsEndpoint
  \/ broadcast
  \/ send_personal_message

SpecPush == InitPush /\ [][NextPush]_vars

\* ------------------------------------------- the gateway's own endpoints
\* POST /trigger-job-pipeline and the /ws/job-updates endpoint, with no worker
\* and no consumer running: the status map changes only through the POST.
NextEndpoints ==
  \/ \E payload \in Payloads, ack \in BOOLEAN :
       TriggerJobPipeline(payload, ack)
  \/ TriggerRecord
  \/ WsEndpoint

SpecEndpoints == Init /\ [][NextEndpoints]_vars

\* ------------------------------------- the gateway's consumer and shutdown
\* The gateway serves with a backlog on its topics, with its consumer thread
\* or without (the consumer could not connect at startup), and shuts down.
InitShutdown ==
  /\ \E status \in SeqsUpTo(StatusEvents, MaxBacklog),
        notification \in SeqsUpTo(NotificationEvents, 1) :
       /\ topics = [t \in Topics |->
                      CASE t = JOB_STATUS_UPDATES_TOPIC -> status
                        [] t = SYSTEM_NOTIFICATIONS_TOPIC -> notification
                        [] OTHER -> <<>>]
       /\ published =
            {[topic |-> JOB_STATUS_UPDATES_TOPIC, msg |-> Logged(status[i])] :
               i \in 1..Len(status)}
            \cup {[topic |-> SYSTEM_NOTIFICATIONS_TOPIC,
                   msg |-> Logged(notification[i])] :
                    i \in 1..Len(notification)}
  /\ env_api_key = "key"
  /\ db_sessions = NoSessions
  /\ unacked = <<>>
  /\ next_job = NumJobs + 1
  /\ api = ApiIdle
  /\ http_resp = EmptyDict
  /\ job_statuses = EmptyDict
  /\ failed_seen = {}
  /\ scraper = ScraperIdle
  /\ loader = [r \in LoaderIds |-> LoaderIdle]
  /\ files = EmptyDict
  /\ db = {}
  /\ next_row_id = 1
  /\ first_commit = EmptyDict
  /\ \E started \in BOOLEAN :
       IF started
       THEN /\ boot = [s \in Services |-> Started]
            /\ consumer_thread = ThreadRunning
       ELSE /\ boot = [s \in Services |->
                        IF s = "gateway"
                        THEN [Started EXCEPT !.consumer = FALSE] ELSE Started]
            /\ consumer_thread = ThreadNotStarted
  /\ ws = WsInit

NextShutdown ==
  \/ Consumer
  \/ Shutdown

SpecShutdown == InitShutdown /\ [][NextShutdown]_vars

\* ------------------------------ the gateway's consumer fed by the workers
NextFed ==
  \/ ScraperNext
  \/ \E r \in LoaderIds : LoaderHandle(r)
  \/ Consumer

\* One request for a single title waits on scraping-jobs: one of the
\* gateway's for a single listing, or one with the max_jobs of 0 the scraper
\* refuses.
FedBacklogs ==
  {<<JobRequestedMessage(1, "key",
       [GoodPayload(n) EXCEPT !.job_titles = <<"A">>])>> :
     n \in 0..1}

InitFed ==
  /\ \E backlog \in FedBacklogs :
       /\ topics = [t \in Topics |->
                      IF t = SCRAPING_JOBS_TOPIC THEN backlog ELSE <<>>]
       /\ published = {[topic |-> SCRAPING_JOBS_TOPIC,
                        msg |-> Logged(backlog[i])] : i \in 1..Len(backlog)}
  /\ env_api_key = "key"
  /\ db_sessions = NoSessions
  /\ unacked = <<>>
  /\ next_job = 1
  /\ api = ApiIdle
  /\ http_resp = EmptyDict
  /\ job_statuses = EmptyDict
  /\ failed_seen = {}
  /\ scraper = ScraperIdle
  /\ loader = [r \in LoaderIds |-> LoaderIdle]
  /\ files = EmptyDict
  /\ db = {}
  /\ next_row_id = 1
  /\ first_commit = EmptyDict
  /\ boot = [s \in Services |-> Started]
  /\ ws = WsInit
  /\ consumer_thread = ThreadRunning

SpecFed == InitFed /\ [][NextFed]_vars

\* --------------------------------------------------------------- properties
\* The record the consumer thread took from its iterator and has not handled
\* yet.
HeldRecord == consumer_thread.record[1].value

\* A record of job_id waits on `topic`.
Pending(topic, job_id) ==
  \E i \in 1..Len(topics[topic]) : Get(topics[topic][i], "job_id", 0) = job_id

\* Nothing is in flight for job_id: no record of it waits on a topic, the
\* consumer thread holds none and no handler is at work.
Settled(job_id) ==
  /\ \A topic \in Topics : ~Pending(topic, job_id)
  /\ \/ consumer_thread.record = <<>>
     \/ Get(consumer_thread.record[1].value, "job_id", 0) # job_id
  /\ api.pc = "idle"
  /\ scraper.pc = "idle"
  /\ \A r \in LoaderIds : loader[r].pc = "idle"

\* The broker acknowledged an event_type record of job_id on `topic`.
WasPublished(topic, job_id, event_type) ==
  \E rec \in published :
    /\ rec.topic = topic
    /\ Get(rec.msg, "job_id", 0) = job_id
    /\ Get(rec.msg, "event_type", "None") = event_type

\* The event_type records of job_id a worker handed to its producer for
\* `topic` and no broker acknowledged.
UnackedRecords(topic, job_id, event_type) ==
  Cardinality({i \in 1..Len(unacked) :
    /\ unacked[i].topic = topic
    /\ Get(unacked[i].msg, "job_id", 0) = job_id
    /\ Get(unacked[i].msg, "event_type", "None") = event_type})

\* A service sent an event_type record of job_id to `topic`: the broker
\* acknowledged it, or the worker handed it to its producer and went on.
WasSent(topic, job_id, event_type) ==
  \/ WasPublished(topic, job_id, event_type)
  \/ UnackedRecords(topic, job_id, event_type) > 0

\* The step is the consumer thread handling the record it took from its
\* iterator.
ConsumerStep == \E topic \in CONSUMER_TOPICS : ConsumeRecord(topic)

StatusOf(job_id) == Get(Get(job_statuses, job_id, EmptyDict), "status", "None")

\* C1: once a job's status in the status map is FAILED or COMPLETE, no record
\* the consumer thread handles afterwards changes that job's status.
C1_TerminalStatusKept ==
  [][ConsumerStep =>
       \A j \in DOMAIN job_statuses :
         StatusOf(j) \in {"FAILED", "COMPLETE"}
           => Get(job_statuses'[j], "status", "None") = StatusOf(j)]_vars

\* C2: for a job on which a worker took a failure path (job_failed and the
\* terminal job_progress are published), once the gateway has consumed every
\* event of the job, its status in the status map is FAILED.
C2_FailurePathEndsFailed ==
  \A j \in JobIds :
    (/\ WasPublished(SYSTEM_NOTIFICATIONS_TOPIC, j, "job_failed")
     /\ WasPublished(JOB_STATUS_UPDATES_TOPIC, j, "job_progress")
     /\ Settled(j))
      => StatusOf(j) = "FAILED"

\* C3: for a job that ran without failure (loading_requested and
\* loading_complete published, no job_failed), once the gateway has consumed
\* every event of the job, the entry has status COMPLETE and percentage 100.
C3_CleanRunEndsComplete ==
  \A j \in JobIds :
    (/\ WasPublished(DATA_PROCESSING_TOPIC, j, "loading_requested")
     /\ WasPublished(JOB_STATUS_UPDATES_TOPIC, j, "loading_complete")
     /\ ~WasPublished(SYSTEM_NOTIFICATIONS_TOPIC, j, "job_failed")
     /\ Settled(j))
      => /\ StatusOf(j) = "COMPLETE"
         /\ Get(Get(job_statuses, j, EmptyDict), "percentage", -1) = Pct(100)

\* C4 (P1): the percentage of a job in the status map never decreases from one
\* update to the next as long as the gateway has consumed no job_failed of
\* that job.
C4_PercentageMonotoneUntilFailed ==
  [][ConsumerStep =>
       \A j \in DOMAIN job_statuses :
         (j \notin failed_seen' /\ "percentage" \in DOMAIN job_statuses[j])
           => job_statuses'[j].percentage >= job_statuses[j].percentage]_vars

\* The scraper took the job_requested of job_id off scraping-jobs and its
\* handler has returned.
ScraperHandled(job_id) ==
  /\ WasPublished(SCRAPING_JOBS_TOPIC, job_id, "job_requested")
  /\ ~Pending(SCRAPING_JOBS_TOPIC, job_id)
  /\ (scraper.pc = "idle" \/ scraper.job_id # job_id)

\* C5 (P2): for every job_requested the scraper has consumed and finished
\* handling, exactly one of a loading_requested on data-processing and a
\* job_failed on system-notifications is published for the job_id (the
\* scraper has sent it, acknowledged or not).
C5_ExactlyOneOutcome ==
  \A j \in AllJobIds :
    ScraperHandled(j) =>
      (WasSent(DATA_PROCESSING_TOPIC, j, "loading_requested")
       # WasSent(SYSTEM_NOTIFICATIONS_TOPIC, j, "job_failed"))

\* C6: POST /trigger-job-pipeline answers 202 with a job_id only if the broker
\* acknowledged a job_requested of that job_id on scraping-jobs, and when it
\* answers the status map holds the job_id with status "requested".
C6_AcceptedMeansPublishedAndRecorded ==
  [][(http_resp' # http_resp /\ Get(http_resp', "code", 0) = 202) =>
       LET j == http_resp'.job_id
       IN /\ WasPublished(SCRAPING_JOBS_TOPIC, j, "job_requested")
          /\ j \in DOMAIN job_statuses'
          /\ Get(job_statuses'[j], "status", "None") = "requested"]_vars

\* A 202 was answered: the job_requested is acknowledged and the entry reads
\* "requested".
C6_Witness ==
  /\ Get(http_resp, "code", 0) = 202
  /\ WasPublished(SCRAPING_JOBS_TOPIC, http_resp.job_id, "job_requested")
  /\ StatusOf(http_resp.job_id) = "requested"

\* C7: when the broker does not acknowledge the job_requested of a valid
\* request, POST /trigger-job-pipeline answers 503.
C7_PublishFailureAnswers503 ==
  [][\A payload \in Payloads :
       (/\ PipelineTriggerRequest(payload)
        /\ env_api_key # ""
        /\ TriggerJobPipeline(payload, FALSE))
         => Get(http_resp', "code", 0) = 503]_vars

\* C8: a POST /trigger-job-pipeline that does not end in 202 leaves the status
\* map unchanged, and one whose body breaks a field constraint (empty
\* job_titles or location, a time_filter outside 24h/1w/1m, max_jobs not
\* positive) or that finds no server API key produces no broker message.
C8_RejectedPostChangesNothing ==
  [][\A payload \in Payloads, ack \in BOOLEAN :
       TriggerJobPipeline(payload, ack) =>
         /\ api'.pc = "idle" => job_statuses' = job_statuses
         /\ (\/ payload.job_titles = <<>>
             \/ payload.location = ""
             \/ payload.time_filter \notin {"24h", "1w", "1m"}
             \/ payload.max_jobs <= 0
             \/ env_api_key = "")
              => /\ api'.pc = "idle"
                 /\ Get(http_resp', "code", 0) \in {422, 500}
                 /\ topics' = topics
                 /\ published' = published]_vars

\* A request was rejected with 422 while the status map held a job: the entry
\* is still there and no second job_requested exists.
C8_Witness ==
  /\ Get(http_resp, "code", 0) = 422
  /\ job_statuses # EmptyDict
  /\ Cardinality({rec \in published : rec.topic = SCRAPING_JOBS_TOPIC}) = 1

\* C9: PATCH /jobs/{job_id}/progress and DELETE /jobs/{job_id} answer 404 when
\* no row has that job_id (and the database works), and leave the table
\* unchanged.
C9_MissingJobAnswers404 ==
  [][\A s \in DbSessions, job_id \in RequestIds :
       (~\E row \in db : row.job_id = job_id) =>
         /\ delete_job_query(s, job_id, FALSE)
              => (Get(http_resp', "code", 0) = 404 /\ db' = db)
         /\ \A progress \in ProgressValues :
              update_job_progress_query(s, job_id, progress, FALSE)
                => (Get(http_resp', "code", 0) = 404 /\ db' = db)]_vars

\* C10 (P3): once the loader has handled a loading_requested of a job to the
\* commit, handling further loading_requested events of the job and the same
\* file leaves the table as that first run left it.
C10_LoaderIdempotent ==
  \A j \in DOMAIN first_commit : db = first_commit[j]

\* The number of event_type records of job_id the workers have sent to
\* job-status-updates: the ones on the queue and the unacknowledged ones.
StatusRecords(job_id, event_type) ==
  Cardinality({i \in 1..Len(topics[JOB_STATUS_UPDATES_TOPIC]) :
    /\ topics[JOB_STATUS_UPDATES_TOPIC][i].job_id = job_id
    /\ topics[JOB_STATUS_UPDATES_TOPIC][i].event_type = event_type})
  + UnackedRecords(JOB_STATUS_UPDATES_TOPIC, job_id, event_type)

\* Two runs for job 1 committed on the same file, the first one inserted a
\* row, and the table is what the first run left.
C10_Witness ==
  /\ StatusRecords(1, "loading_complete") >= 2
  /\ 1 \in DOMAIN files
  /\ 1 \in DOMAIN first_commit
  /\ \E row \in db : row.job_id > MaxRowId
  /\ db = first_commit[1]

\* C11 (P4): after any loader run that started from a table without duplicate
\* keys, no two persisted rows have the same (lower(title),
\* lower(company_name)) pair.
C11_NoDuplicateKeys ==
  \A row, other \in db :
    (/\ Lower(row.title) = Lower(other.title)
     /\ Lower(row.company_name) = Lower(other.company_name))
      => row = other

\* A run committed a file whose first two records are two spellings of one
\* key, and inserted a row.
C11_Witness ==
  /\ 1 \in DOMAIN first_commit
  /\ 1 \in DOMAIN files
  /\ Len(files[1]) >= 2
  /\ files[1][1] # files[1][2]
  /\ JobKey(files[1][1].title, files[1][1].company)
       = JobKey(files[1][2].title, files[1][2].company)
  /\ \E row \in db : row.job_id > MaxRowId

\* The percentages of the records `source` has sent, acknowledged or not.
PercentagesOf(source) ==
  {rec.msg.percentage :
     rec \in {r \in published \cup {unacked[i] : i \in 1..Len(unacked)} :
                /\ "percentage" \in DOMAIN r.msg
                /\ Get(r.msg, "source", "None") = source}}

\* C12 (P6): every percentage the scraper publishes lies in [0, 90] and every
\* percentage the loader publishes lies in [90, 100], on success and on
\* failure paths.
C12_PercentageBands ==
  /\ \A p \in PercentagesOf("scraper") : Pct(0) <= p /\ p <= Pct(90)
  /\ \A p \in PercentagesOf("loader") : Pct(90) <= p /\ p <= Pct(100)

\* The scraper reported its last listing and 90, and the loader failed at the
\* commit after reporting 98.
C12_Witness ==
  /\ {Pct(80), Pct(90)} \subseteq PercentagesOf("scraper")
  /\ Pct(98) \in PercentagesOf("loader")
  /\ WasPublished(SYSTEM_NOTIFICATIONS_TOPIC, 1, "job_failed")

\* The step is the consumer thread handling a record that bears job_id.
ConsumesRecordOf(job_id) ==
  \E topic \in CONSUMER_TOPICS :
    /\ ConsumeRecord(topic)
    /\ Get(HeldRecord, "job_id", 0) = job_id

\* C13: the status map has an entry for a job_id if and only if the gateway
\* has handled the POST that created it or has consumed a record, of any
\* event type and on either topic, bearing it; entries are never removed.
C13_EntryIffSeen ==
  [][/\ DOMAIN job_statuses \subseteq DOMAIN job_statuses'
     /\ \A j \in AllJobIds :
          /\ ((TriggerRecord /\ api.job_id = j) \/ ConsumesRecordOf(j))
               => j \in DOMAIN job_statuses'
          /\ (j \in DOMAIN job_statuses' /\ j \notin DOMAIN job_statuses)
               => ((TriggerRecord /\ api.job_id = j) \/ ConsumesRecordOf(j))
    ]_vars

\* C14: with the gateway fed by the scraper and the loader, every status-map
\* entry that has a percentage has it within [0, 100].
C14_StoredPercentageInRange ==
  \A j \in DOMAIN job_statuses :
    "percentage" \in DOMAIN job_statuses[j]
      => /\ Pct(0) <= job_statuses[j].percentage
         /\ job_statuses[j].percentage <= Pct(100)

\* The entry of job 1 went through the scraper's percentages and stands at
\* COMPLETE, 100.
C14_Witness ==
  /\ StatusOf(1) = "COMPLETE"
  /\ job_statuses[1].percentage = Pct(100)
  /\ Pct(80) \in PercentagesOf("scraper")

\* C15: the scraper publishes the loading_requested of a job only once the
\* job's data file is written, and when writing the file fails no
\* loading_requested is published for the job (none is sent, acknowledged
\* or not): the step that sends it is taken with the file on disk, holding
\* the listings collected, and a handler whose save failed leaves no new
\* readable file, only reports the failure and returns.
C15_FileBeforeLoadingRequested ==
  [][\A j \in AllJobIds :
       /\ (/\ ~WasSent(DATA_PROCESSING_TOPIC, j, "loading_requested")
           /\ WasSent(DATA_PROCESSING_TOPIC, j, "loading_requested")')
            => /\ scraper.pc = "requesting"
               /\ scraper.job_id = j
               /\ j \in DOMAIN files
               /\ files[j] = scraper.all_jobs_data
       /\ ((\E opened \in BOOLEAN : ScraperSaveFails(opened))
           /\ scraper.job_id = j)
            => /\ \A k \in DOMAIN files' :
                    \/ ~Decodable(files'[k])
                    \/ k \in DOMAIN files /\ files'[k] = files[k]
               /\ scraper'.pc = "failed"
               /\ ~WasSent(DATA_PROCESSING_TOPIC, j, "loading_requested")'
       /\ (scraper.pc = "failed" /\ scraper.job_id = j)
            => /\ scraper' = scraper \/ scraper' = ScraperIdle
               /\ WasSent(DATA_PROCESSING_TOPIC, j, "loading_requested")'
                    = WasSent(DATA_PROCESSING_TOPIC, j, "loading_requested")
    ]_vars

\* The scraper kept a listing, wrote the file and published the
\* loading_requested; the loader has not taken it yet.
C15_Witness ==
  /\ scraper.pc = "finish"
  /\ WasPublished(DATA_PROCESSING_TOPIC, 1, "loading_requested")
  /\ Pending(DATA_PROCESSING_TOPIC, 1)
  /\ 1 \in DOMAIN files
  /\ files[1] # <<>>

\* The number of event_type records of job_id the workers have sent to
\* system-notifications: the ones on the queue and the unacknowledged ones.
NotificationRecords(job_id, event_type) ==
  Cardinality({i \in 1..Len(topics[SYSTEM_NOTIFICATIONS_TOPIC]) :
    /\ topics[SYSTEM_NOTIFICATIONS_TOPIC][i].job_id = job_id
    /\ topics[SYSTEM_NOTIFICATIONS_TOPIC][i].event_type = event_type})
  + UnackedRecords(SYSTEM_NOTIFICATIONS_TOPIC, job_id, event_type)

\* C16: the loader deletes the data file only on a run that publishes
\* loading_complete, every such run deletes it or publishes a system_warning
\* and no job_failed, and a run that publishes job_failed leaves the files
\* alone. A run is at the removal exactly when it has sent loading_complete;
\* it leaves the removal with the file deleted or a system_warning sent and
\* returns to the consumer loop, so that no job_failed follows; a run that
\* sends job_failed has not touched the files and only reports the failure
\* before it returns.
C16_FileDeletedOnCompleteOnly ==
  [][\A j \in AllJobIds :
       LET completes == StatusRecords(j, "loading_complete")'
                          > StatusRecords(j, "loading_complete")
           fails == NotificationRecords(j, "job_failed")'
                      > NotificationRecords(j, "job_failed")
           warns == NotificationRecords(j, "system_warning")'
                      > NotificationRecords(j, "system_warning")
           AtRemoval(l) == \E r \in LoaderIds :
                             l[r].pc = "cleanup" /\ l[r].job_id = j
       IN /\ (j \in DOMAIN files /\ j \notin DOMAIN files')
               => AtRemoval(loader)
          /\ (AtRemoval(loader') /\ ~AtRemoval(loader)) <=> completes
          /\ (AtRemoval(loader) /\ ~AtRemoval(loader'))
               => /\ ~fails
                  /\ (j \notin DOMAIN files') # warns
                  /\ \A r \in LoaderIds :
                       (loader[r].pc = "cleanup" /\ loader[r].job_id = j)
                         => loader'[r] = LoaderIdle
          /\ warns => (AtRemoval(loader) /\ ~AtRemoval(loader'))
          /\ fails => /\ files' = files
                      /\ \E r \in LoaderIds :
                           /\ loader'[r].pc = "failed"
                           /\ loader'[r].job_id = j
          /\ \A r \in LoaderIds :
               (loader[r].pc = "failed" /\ loader[r].job_id = j)
                 => /\ files' = files
                    /\ ~completes
                    /\ loader'[r].pc \in {"failed", "raised", "idle"}]_vars

\* The loader took the loading_requested of job_id off data-processing and
\* its handler has returned.
LoaderHandled(job_id) ==
  /\ WasPublished(DATA_PROCESSING_TOPIC, job_id, "loading_requested")
  /\ ~Pending(DATA_PROCESSING_TOPIC, job_id)
  /\ \A r \in LoaderIds : loader[r].pc = "idle"

\* C17: in both workers, when the handling of a consumed message that carries
\* a job_id has ended without handing the job on (the scraper sent no
\* loading_requested, the loader no loading_complete), the worker has sent a
\* job_failed carrying the job_id to system-notifications.
C17_LostJobIsReportedFailed ==
  \A j \in AllJobIds :
    /\ (/\ ScraperHandled(j)
        /\ ~WasSent(DATA_PROCESSING_TOPIC, j, "loading_requested"))
         => WasSent(SYSTEM_NOTIFICATIONS_TOPIC, j, "job_failed")
    /\ (/\ LoaderHandled(j)
        /\ ~WasSent(JOB_STATUS_UPDATES_TOPIC, j, "loading_complete"))
         => WasSent(SYSTEM_NOTIFICATIONS_TOPIC, j, "job_failed")

\* C18: gateway startup is aborted, and the application never serves, whenever
\* the connect routine of the producer or of the consumer has failed at its
\* last retry.
C18_FinalConnectFailureAbortsStartup ==
  LET g == boot["gateway"]
  IN (/\ g.pc \notin {"producer", "consumer"}
      /\ g.attempts = GATEWAY_CONNECT_RETRIES
      /\ ~(g.producer /\ g.consumer))
     => g.pc = "aborted"

\* C19: every connect routine makes at most five attempts and is over after
\* the fifth failed one; a worker that ends startup without its producer or
\* without its consumer has exited, and only a worker holding both clients
\* consumes or handles a record.
C19_ConnectGivesUpAfterFive ==
  [][/\ \A s \in Services :
          /\ boot'[s].attempts <= 5
          /\ (boot'[s].pc \in {"producer", "consumer"}
              => boot'[s].attempts < 5)
      /\ \A w \in {"scraper", "loader"} :
          (/\ boot'[w].pc \notin {"producer", "consumer"}
           /\ ~(boot'[w].producer /\ boot'[w].consumer))
          => boot'[w].pc = "exited"
      /\ \/ /\ boot["scraper"].pc = "serving"
            /\ boot["scraper"].producer /\ boot["scraper"].consumer
         \/ ~ScraperNext
      /\ \/ /\ boot["loader"].pc = "serving"
            /\ boot["loader"].producer /\ boot["loader"].consumer
         \/ ~\E r \in LoaderIds : LoaderHandle(r)]_vars

\* Every service gave up a connect routine at its fifth attempt, both
\* workers have exited, and the request on scraping-jobs was never consumed.
C19_Witness ==
  /\ \A s \in Services : boot[s].attempts = 5
  /\ boot["scraper"].pc = "exited"
  /\ boot["loader"].pc = "exited"
  /\ boot["gateway"].pc = "aborted"
  /\ Len(topics[SCRAPING_JOBS_TOPIC]) = 1
  /\ scraper = ScraperIdle

\* C20: every record a service published carries job_id, event_type, source
\* and timestamp.
C20_MandatoryFieldsOnEveryEvent ==
  \A rec \in published :
    {"job_id", "event_type", "source", "timestamp"} \subseteq DOMAIN rec.msg


\* The client is on active_connections.
Listed(active_connections, c) ==
  \E i \in 1..Len(active_connections) : active_connections[i] = c

\* C21: the first message handed to a client's socket is initial_state, its
\* jobs are those of the copy of the status map taken when the client was
\* accepted, and every later message to that client is a status_update. The
\* client gets on the connection list with nothing sent to it, the step of
\* its endpoint after the copy hands the initial_state to its socket as the
\* first message, and whatever is handed to the socket while that send is
\* suspended, or later, comes behind it.
C21_InitialStateFirst ==
  [][/\ \A c \in WsClients :
         ws'.sent[c] # <<>>
         => /\ ws'.sent[c][1].message.type = "initial_state"
            /\ \A i \in 2..Len(ws'.sent[c]) :
                 ws'.sent[c][i].message.type = "status_update"
     /\ \A c \in WsClients :
         (~Listed(ws.active_connections, c)
          /\ Listed(ws'.active_connections, c))
         => /\ ws'.sent[c] = <<>>
            /\ ws'.pc[c] = "accepted"
            /\ ws'.current_statuses[c] = job_statuses
     /\ \A c \in WsClients :
         ws.pc[c] = "accepted"
         => /\ ws.sent[c] = <<>>
            /\ \A d \in WsClients \ {c} : ws'.sent[d] = ws.sent[d]
            /\ ws'.pc[c] # "accepted"
               => /\ ws'.pc[c] = "sending"
                  /\ Len(ws'.sent[c]) = 1
                  /\ DOMAIN ws'.sent[c][1].message.jobs
                       = DOMAIN ws.current_statuses[c]
     /\ \A c \in WsClients :
         Len(ws'.sent[c]) >= Len(ws.sent[c])
         /\ \A i \in 1..Len(ws.sent[c]) :
              ws'.sent[c][i].message = ws.sent[c][i].message]_vars

\* A client was accepted after the consumer had recorded a status and was
\* handed an initial_state carrying job 1; while that send was suspended a
\* broadcast handed a status_update to the same socket, behind it.
C21_Witness ==
  \E c \in WsClients :
    /\ Len(ws.sent[c]) = 2
    /\ ws.pc[c] = "sending"
    /\ ws.sent[c][1].message.type = "initial_state"
    /\ ws.sent[c][1].outcome = "pending"
    /\ 1 \in DOMAIN ws.sent[c][1].message.jobs
    /\ ws.sent[c][1].message.jobs[1].status = "RUNNING"
    /\ ws.sent[c][2].message.type = "status_update"
    /\ ws.sent[c][2].message.data.status = "COMPLETE"

\* C22: in a broadcast, a client whose send fails is removed from the active
\* connections; every other client of the list is sent the message and
\* stays connected. A broadcast creates a send for every client on the list
\* when it starts, each of them is handed to its client's socket, and a send
\* of a status_update that raises takes its client, and no other, off the
\* list.
C22_FailedSendDisconnectsOnlyThatClient ==
  [][/\ broadcast
        => ws'.tasks = ws.tasks \o GatherTasks(Head(ws.scheduled),
                                               ws.active_connections)
     /\ send_personal_message
        => LET task == Head(ws.tasks)
           IN ws'.sent[task.websocket]
                = Append(ws.sent[task.websocket],
                         [message |-> task.message, outcome |-> "pending"])
     /\ \A c \in WsClients, outcome \in SendOutcomes :
          \A i \in 1..Len(ws.sent[c]) :
            (/\ send_json_returns(c, i, outcome)
             /\ ws.sent[c][i].message.type = "status_update")
            => /\ outcome # "sent" => ~Listed(ws'.active_connections, c)
               /\ outcome = "sent"
                  => ws'.active_connections = ws.active_connections
               /\ \A d \in WsClients \ {c} :
                    /\ Listed(ws'.active_connections, d)
                         <=> Listed(ws.active_connections, d)
                    /\ ws'.sent[d] = ws.sent[d]]_vars

\* C23 (P7): a record with which the consumer changes the status map
\* schedules exactly one broadcast {type: status_update, job_id, data}, data
\* being the updated entry restricted to status, stage, percentage,
\* error_details, last_update and last_event_type; no record schedules more
\* than one. The thread leaves the lock with one copy of the updated entry,
\* its next step schedules the one broadcast built from that copy, and it
\* takes no further record before.
C23_OneBroadcastPerChange ==
  [][/\ \A topic \in CONSUMER_TOPICS :
          ConsumeRecord(topic)
          => LET message == HeldRecord
             IN /\ ws'.scheduled = ws.scheduled
                /\ Len(consumer_thread'.updated_status_info) <= 1
                /\ job_statuses' # job_statuses
                   => consumer_thread'.updated_status_info
                        = <<[job_id |-> message.job_id,
                             info |-> job_statuses'[message.job_id]]>>
     /\ (consumer_thread.updated_status_info # <<>> /\ consumer_thread.alive)
        => ENABLED ScheduleBroadcast
     /\ (\/ ws'.scheduled # ws.scheduled
         \/ consumer_thread'.updated_status_info
              # consumer_thread.updated_status_info)
        => \/ ConsumerStep
           \/ /\ consumer_thread.updated_status_info # <<>>
              /\ consumer_thread'.updated_status_info = <<>>
              /\ LET updated == consumer_thread.updated_status_info[1]
                     entry == updated.info
                     keys == {"status", "stage", "percentage",
                              "error_details", "last_update",
                              "last_event_type"}
                 IN ws'.scheduled =
                      Append(ws.scheduled,
                             [type |-> "status_update",
                              job_id |-> updated.job_id,
                              data |-> [k \in keys \cap DOMAIN entry
                                          |-> entry[k]]])]_vars

\* The consumer updated the entry the POST handler had written: the entry
\* has keys the broadcast leaves out, and one broadcast is scheduled.
C23_Witness ==
  /\ Len(ws.scheduled) = 1
  /\ consumer_thread.updated_status_info = <<>>
  /\ 1 \in DOMAIN job_statuses
  /\ "requested_at" \in DOMAIN job_statuses[1]
  /\ job_statuses[1].status = "FAILED"
  /\ ws.scheduled[1].data.error_details = "boom"

\* The record a worker's step has sent to job-status-updates, acknowledged or
\* not.
StatusRecordSent ==
  IF Len(unacked') > Len(unacked) THEN unacked'[Len(unacked')].msg
  ELSE LET q == topics'[JOB_STATUS_UPDATES_TOPIC] IN q[Len(q)]

\* round(a / b) of two ints a >= 0, b > 0: a tie goes to the even neighbour.
RoundDiv(a, b) ==
  LET q == a \div b
      r == a % b
  IN IF 2 * r < b THEN q
     ELSE IF 2 * r > b THEN q + 1
     ELSE IF q % 2 = 0 THEN q ELSE q + 1

\* C24: after the k-th kept listing of a job with max_jobs = N the scraper
\* publishes a job_progress whose percentage is 5 + 85*k/N (47.5 for k = 1,
\* N = 2, and 90 for k = N).
C24_ListingPercentageScaledTo90 ==
  [][\A listing \in ListingPool :
       ScraperKeepListing(listing)
       => LET k == Len(scraper.all_jobs_data) + 1
              N == scraper.max_jobs
          IN /\ StatusRecordSent.event_type = "job_progress"
             /\ StatusRecordSent.percentage
                  = Pct(5) + RoundDiv(k * Pct(85), N)]_vars

\* C25: when the gateway consumes the loader's 91% or 98% report of a job
\* that is loading, the entry of the job gets status 'LOADING DATA' and stage
\* 'LOADING DATA'.
C25_LoaderStepsShowLoadingData ==
  [][LET message == HeldRecord
     IN (/\ ConsumeRecord(JOB_STATUS_UPDATES_TOPIC)
         /\ Get(message, "source", "unknown") = "loader"
         /\ Get(message, "percentage", 0) \in {Pct(91), Pct(98)}
         /\ Get(message, "description", <<"None">>)[1] # "Failed")
        => /\ job_statuses'[message.job_id].status = "LOADING DATA"
           /\ job_statuses'[message.job_id].stage = "LOADING DATA"]_vars

\* The comma-separated elements of a string, trimmed, without the empty ones.
TitleElements(job_titles_str) ==
  LET parts == Split(job_titles_str, ",")
  IN {Strip(parts[i]) : i \in 1..Len(parts)} \ {<<>>}

\* C26 (P8) as stated: when the search of a job ends, the titles the scraper
\* has queried are exactly the trimmed non-empty comma-separated elements of
\* parameters.job_titles.
C26_QueriesExactlyTheTitles ==
  [][ScraperReportSaving
     => QueriedTitles(scraper) = TitleElements(scraper.job_titles_str)]_vars

\* C26 amended: the scraper only ever queries trimmed non-empty
\* comma-separated elements of parameters.job_titles, the first one always;
\* when the search ends it has queried all of them unless max_jobs listings
\* were kept before.
C26_QueriesOnlyTheTitles ==
  [][/\ scraper'.pc = "scraping"
        => QueriedTitles(scraper')
             \subseteq TitleElements(scraper'.job_titles_str)
     /\ ScraperReportSaving
        => /\ QueriedTitles(scraper) # {}
           /\ \/ QueriedTitles(scraper)
                   = TitleElements(scraper.job_titles_str)
              \/ Len(scraper.all_jobs_data) >= scraper.max_jobs]_vars

\* For job_titles "A, B" the scraper has queried A and B, with one listing
\* kept and max_jobs not reached.
C26_Witness ==
  /\ scraper.pc = "scraping"
  /\ scraper.job_titles_str = <<"A", ",", " ", "B">>
  /\ QueriedTitles(scraper) = {<<"A">>, <<"B">>}
  /\ Len(scraper.all_jobs_data) = 1
  /\ scraper.max_jobs = 2

\* C27: a job_progress or loading_progress record without percentage leaves
\* the percentage of the job's entry as it was before the record.
C27_NoPercentageKeepsPrior ==
  [][LET message == HeldRecord
         job_id == message.job_id
     IN (/\ ConsumeRecord(JOB_STATUS_UPDATES_TOPIC)
         /\ "job_id" \in DOMAIN message
         /\ Get(message, "event_type", "None")
              \in {"job_progress", "loading_progress"}
         /\ "percentage" \notin DOMAIN message
         /\ job_id \in DOMAIN job_statuses
         /\ "percentage" \in DOMAIN job_statuses[job_id])
        => job_statuses'[job_id].percentage
             = job_statuses[job_id].percentage]_vars

\* C28: a record whose event type is not handled on its topic, or that has
\* no job_id, leaves the status map as it is and schedules no broadcast.
C28_UnhandledEventChangesNothing ==
  [][\A topic \in CONSUMER_TOPICS :
       LET message == HeldRecord
           handled == IF topic = JOB_STATUS_UPDATES_TOPIC
                      THEN {"job_started", "job_progress",
                            "loading_progress", "loading_complete"}
                      ELSE {"job_failed"}
       IN (/\ ConsumeRecord(topic)
           /\ \/ "job_id" \notin DOMAIN message
              \/ Get(message, "event_type", "None") \notin handled)
          => /\ job_statuses' = job_statuses
             /\ ws' = ws
             /\ consumer_thread'.updated_status_info = <<>>]_vars

\* The consumer has taken a job_failed from job-status-updates and a
\* system_warning from system-notifications, and the map is still empty.
C28_Witness ==
  /\ \E rec \in published :
       rec.topic = JOB_STATUS_UPDATES_TOPIC /\ rec.msg.event_type = "job_failed"
  /\ \E rec \in published :
       /\ rec.topic = SYSTEM_NOTIFICATIONS_TOPIC
       /\ rec.msg.event_type = "system_warning"
  /\ \A topic \in CONSUMER_TOPICS : topics[topic] = <<>>
  /\ Cardinality(published) = 2
  /\ job_statuses = EmptyDict
  /\ ws.scheduled = <<>>
  /\ consumer_thread.updated_status_info = <<>>

\* The records of a file skipped as duplicates: title and company are
\* present and their key is in the database or belongs to a record loaded
\* earlier in the run.
RECURSIVE DuplicateRecords(_, _)
DuplicateRecords(job_listings, keys) ==
  IF job_listings = <<>> THEN 0
  ELSE LET job_data == Head(job_listings)
           title == Get(job_data, "title", <<>>)
           company == Get(job_data, "company", <<>>)
           keyed == title # <<>> /\ company # <<>>
       IN IF keyed /\ JobKey(title, company) \in keys
          THEN 1 + DuplicateRecords(Tail(job_listings), keys)
          ELSE IF keyed /\ Get(job_data, "location", <<>>) # <<>>
          THEN DuplicateRecords(Tail(job_listings),
                                keys \cup {JobKey(title, company)})
          ELSE DuplicateRecords(Tail(job_listings), keys)

\* C29: the count D in the description of the loader's 98% job_progress is
\* the number of records skipped because their key was already in the
\* database or earlier in the run, and the duplicate clause is there exactly
\* when D > 0.
C29_DuplicateCountIsDuplicates ==
  [][\A r \in LoaderIds :
       LoaderReportCommit(r)
       => LET D == DuplicateRecords(loader[r].job_listings,
                                    ExistingJobKeys(db))
          IN /\ StatusRecordSent.percentage = Pct(98)
             /\ StatusRecordSent.description[2] = D
             /\ StatusRecordSent.description[1]
                  = IF D > 0
                    THEN "Identified duplicates. Preparing to commit new jobs..."
                    ELSE "Preparing to commit new jobs..."]_vars

\* C30: no row of the table has a blank title or a blank company, and every
\* row has a location.
C30_NoBlankTitleOrCompanyStored ==
  \A row \in db :
    /\ Strip(row.title) # <<>>
    /\ Strip(row.company_name) # <<>>
    /\ "location" \in DOMAIN row

\* C31: before the scraper publishes a per-listing job_progress of a job, a
\* job_started event of that job has been published on job-status-updates.
C31_JobStartedBeforeListingProgress ==
  [][\A listing \in ListingPool :
       ScraperKeepListing(listing)
       => \E rec \in published :
            /\ rec.topic = JOB_STATUS_UPDATES_TOPIC
            /\ Get(rec.msg, "job_id", 0) = scraper.job_id
            /\ Get(rec.msg, "event_type", "None") = "job_started"]_vars

\* C32: the scraper's result list never holds more than max_jobs listings,
\* the file it writes neither, and once max_jobs listings are kept the
\* scraper requests no further search page and no detail page, for the
\* current title or a later one: its only next step is to leave the search
\* and report that it saves.
C32_NeverMoreThanMaxJobs ==
  [][/\ (scraper'.pc = "scraping"
         => Len(scraper'.all_jobs_data) <= scraper'.max_jobs)
     /\ (ScraperSaveOk
         => Len(files'[scraper.job_id]) <= scraper.max_jobs)
     /\ ((/\ scraper.pc = "scraping"
          /\ Len(scraper.all_jobs_data) >= scraper.max_jobs
          /\ scraper' # scraper)
         => scraper'.pc = "saving")]_vars

\* max_jobs listings are kept while the search of the first title is on and
\* a later title has not been queried.
C32_Witness ==
  /\ scraper.pc = "scraping"
  /\ scraper.searching
  /\ Len(scraper.all_jobs_data) = scraper.max_jobs
  /\ scraper.queried < Len(scraper.job_titles)

\* A search page that times out or answers with an HTTP error.
PageErrors == {"Timeout", "RequestException"}

\* C33: a timeout or HTTP error on a search page ends the search of the
\* current title only: the listings collected so far are kept, nothing is
\* published (no job_failed), the next title can be queried when there is
\* one, and otherwise the search is over; and the job of a search that
\* abandoned a title can still write its file with every listing collected and
\* publish loading_requested (send it, with no job_failed sent).
C33_PageErrorAbandonsTitleOnly ==
  [][/\ \A outcome \in PageErrors :
          ScraperPageEnds(outcome)
          => /\ scraper'.pc = "scraping"
             /\ ~scraper'.searching
             /\ scraper'.all_jobs_data = scraper.all_jobs_data
             /\ scraper'.queried = scraper.queried
             /\ published' = published
             /\ topics' = topics
             /\ unacked' = unacked
             /\ IF scraper.queried < Len(scraper.job_titles)
                THEN ~SearchOver(scraper')
                ELSE SearchOver(scraper')
     /\ ((/\ scraper.pc = "scraping"
          /\ scraper.abandoned # {}
          /\ SearchOver(scraper)
          /\ scraper' # scraper)
         => /\ scraper'.pc = "saving"
            /\ scraper'.all_jobs_data = scraper.all_jobs_data
            /\ scraper'.abandoned = scraper.abandoned)
     /\ ((scraper.pc = "saving" /\ scraper.abandoned # {})
         => ENABLED ScraperSaveOk)
     /\ ((ScraperSaveOk /\ scraper.abandoned # {})
         => /\ files'[scraper.job_id] = scraper.all_jobs_data
            /\ scraper'.pc = "saved")
     /\ ((/\ scraper.pc \in {"saved", "requesting"}
          /\ scraper.abandoned # {}
          /\ scraper' # scraper)
         => /\ scraper'.pc = IF scraper.pc = "saved" THEN "requesting"
                             ELSE "finish"
            /\ ~WasSent(SYSTEM_NOTIFICATIONS_TOPIC, scraper.job_id,
                        "job_failed")'
            /\ scraper.pc = "requesting"
               => WasSent(DATA_PROCESSING_TOPIC, scraper.job_id,
                          "loading_requested")')]_vars

\* The search of the first title was abandoned after an error, the second
\* title was searched, and the job wrote its file, with a listing of each
\* title, and published loading_requested and no job_failed.
C33_Witness ==
  /\ scraper.pc = "finish"
  /\ scraper.abandoned = {1}
  /\ Len(files[scraper.job_id]) = 2
  /\ files[scraper.job_id][1].search_query = <<"A">>
  /\ files[scraper.job_id][2].search_query = <<"B">>
  /\ WasPublished(DATA_PROCESSING_TOPIC, scraper.job_id, "loading_requested")
  /\ ~WasPublished(SYSTEM_NOTIFICATIONS_TOPIC, scraper.job_id, "job_failed")

\* C34: a run of the loader that fails at the bulk add or at the commit (it
\* leaves the add or the commit with a job_failed of its job sent) persists
\* nothing: the rows are the ones before the run, no loading_complete is
\* sent and the input file stays, up to the return of the handler, through
\* the report of an exception raised when the session is closed included.
C34_FailedLoadIsAllOrNothing ==
  [][\A r \in LoaderIds, j \in AllJobIds :
       /\ (/\ loader[r].pc \in {"precommit", "commit"}
           /\ loader[r].job_id = j
           /\ loader'[r].pc \notin {"precommit", "commit", "committed"})
          => /\ loader'[r].pc = "failed"
             /\ db' = db
             /\ NotificationRecords(j, "job_failed")'
                  = NotificationRecords(j, "job_failed") + 1
             /\ StatusRecords(j, "loading_complete")'
                  = StatusRecords(j, "loading_complete")
             /\ files' = files
             /\ j \in DOMAIN files
       /\ (loader[r].pc \in {"failed", "raised"} /\ loader[r].job_id = j)
          => /\ db' = db
             /\ files' = files
             /\ StatusRecords(j, "loading_complete")'
                  = StatusRecords(j, "loading_complete")
             /\ loader'[r].pc \in {"failed", "raised", "idle"}]_vars

\* A run with a new row to store failed at the commit, after its 98% report:
\* no row was added, the file is there and no loading_complete was published.
C34_Witness ==
  /\ NotificationRecords(1, "job_failed") >= 1
  /\ \E i \in 1..Len(topics[JOB_STATUS_UPDATES_TOPIC]) :
       /\ topics[JOB_STATUS_UPDATES_TOPIC][i].percentage = Pct(98)
       /\ topics[JOB_STATUS_UPDATES_TOPIC][i].description[1] = "Failed"
  /\ \E i \in 1..Len(topics[JOB_STATUS_UPDATES_TOPIC]) :
       /\ topics[JOB_STATUS_UPDATES_TOPIC][i].percentage = Pct(98)
       /\ topics[JOB_STATUS_UPDATES_TOPIC][i].description[3] >= 1
  /\ StatusRecords(1, "loading_complete") = 0
  /\ 1 \in DOMAIN files
  /\ \A row \in db : row.job_id <= MaxRowId

\* The order of the steps of the gateway's shutdown: with a live consumer
\* thread the stop flag is set before the thread is joined, the consumer is
\* closed only after the join has returned, and the producer is flushed and
\* closed only after the consumer is closed.
ShutdownInOrder ==
  LET g == boot["gateway"]
      h == boot'["gateway"]
  IN /\ (consumer_thread.handle /\ consumer_thread.alive /\ g.pc = "serving"
         /\ h.pc # "serving")
        => (consumer_thread'.stop /\ h.pc = "join"
            /\ h.consumer /\ h.producer)
     /\ (consumer_thread.handle /\ ~consumer_thread'.handle)
        => (consumer_thread.stop /\ g.consumer /\ g.producer
            /\ h.consumer /\ h.producer)
     /\ (g.consumer /\ ~h.consumer)
        => (~consumer_thread.handle /\ g.producer /\ h.producer)
     /\ (g.pc = "close_producer" /\ h.pc # "close_producer")
        => (~g.consumer /\ h.pc \in {"down", "shutdown_failed"})
     /\ (g.producer /\ ~h.producer) => ~g.consumer

\* The shutdown of the gateway is over: close_kafka_producer has returned or
\* raised.
ShutdownOver(g) == g.pc \in {"down", "shutdown_failed"}

\* C35: the gateway's shutdown runs in order, and when it is over the
\* producer and the consumer are both unset.
C35_ShutdownOrder ==
  [][/\ ShutdownInOrder
     /\ ShutdownOver(boot'["gateway"])
        => (~boot'["gateway"].producer /\ ~boot'["gateway"].consumer)]_vars

\* C36: once the stop flag is set, the next record the iterator yields ends
\* the consumer thread, and neither that record nor a later one changes the
\* status map or schedules a broadcast. A record passes the test of the flag
\* only while the flag is clear; with the flag set the status map changes
\* only by a record that had passed the test before, and a broadcast is
\* scheduled only for a record applied so; an ended thread takes no record
\* and changes nothing.
C36_StopFlagEndsConsumer ==
  [][/\ (consumer_thread.stop
         /\ \E topic \in CONSUMER_TOPICS : ConsumerNextRecord(topic))
        => /\ ~consumer_thread'.alive
           /\ consumer_thread'.record = <<>>
           /\ consumer_thread'.updated_status_info = <<>>
           /\ job_statuses' = job_statuses
           /\ failed_seen' = failed_seen
           /\ ws'.scheduled = ws.scheduled
     /\ (consumer_thread.record = <<>> /\ consumer_thread'.record # <<>>)
        => (~consumer_thread.stop /\ consumer_thread.alive)
     /\ (consumer_thread.stop /\ job_statuses' # job_statuses)
        => /\ consumer_thread.record # <<>>
           /\ consumer_thread'.record = <<>>
           /\ topics' = topics
     /\ (consumer_thread.stop /\ ws'.scheduled # ws.scheduled)
        => /\ consumer_thread.updated_status_info # <<>>
           /\ consumer_thread'.updated_status_info = <<>>
           /\ topics' = topics
     /\ consumer_thread.stop => consumer_thread'.stop
     /\ ~consumer_thread.alive
        => /\ topics' = topics
           /\ job_statuses' = job_statuses
           /\ ws'.scheduled = ws.scheduled
           /\ consumer_thread.record = <<>>
           /\ consumer_thread.updated_status_info = <<>>]_vars

\* The flag was set while the thread held a record that had passed the test:
\* that record was applied, the next one the iterator yielded ended the
\* thread, and the third is still waiting.
C36_Witness ==
  /\ consumer_thread.stop
  /\ ~consumer_thread.alive
  /\ Len(topics[JOB_STATUS_UPDATES_TOPIC]) = 0
  /\ Len(topics[SYSTEM_NOTIFICATIONS_TOPIC]) = 1
  /\ Cardinality({rec \in published :
                    rec.topic = JOB_STATUS_UPDATES_TOPIC}) = 2
  /\ Cardinality(DOMAIN job_statuses) = 1

\* C37: an entry of the status map that has shown RUNNING or a later status
\* never shows 'requested' again, and a step of the POST handler does not
\* take away a field the consumer thread has written.
C37_RequestedNeverOverwrites ==
  [][\A j \in JobIds :
       (j \in DOMAIN job_statuses /\ StatusOf(j) # "requested")
       => /\ j \in DOMAIN job_statuses'
          /\ Get(job_statuses'[j], "status", "None") # "requested"
          /\ (TriggerRecord
              => DOMAIN job_statuses[j] \subseteq DOMAIN job_statuses'[j])]_vars

\* The client's endpoint has handed the initial_state to its socket, the
\* client is in the connection list and no send to it has raised.
Connected(c) ==
  /\ ws.pc[c] \in {"sending", "open"}
  /\ Listed(ws.active_connections, c)
  /\ \A i \in 1..Len(ws.sent[c]) :
       ws.sent[c][i].outcome \in {"sent", "pending"}

\* What the messages say of job j, oldest first: an initial_state carrying j
\* and the status_update messages of j.
RECURSIVE ViewsOf(_, _)
ViewsOf(messages, j) ==
  IF messages = <<>> THEN <<>>
  ELSE LET m == Head(messages)
           rest == ViewsOf(Tail(messages), j)
       IN IF m.type = "initial_state"
          THEN IF j \in DOMAIN m.jobs
               THEN <<BroadcastPayload(m.jobs[j])>> \o rest ELSE rest
          ELSE IF m.job_id = j THEN <<m.data>> \o rest ELSE rest

\* The messages of the tasks a started broadcast has created for the client
\* and that the event loop has not started yet.
TaskMessages(c) ==
  LET mine == SelectSeq(ws.tasks, LAMBDA task : task.websocket = c)
  IN [i \in 1..Len(mine) |-> mine[i].message]

\* The messages handed to the client's socket, then the ones of its tasks,
\* then the ones scheduled on the event loop.
ClientMessages(c) ==
  [i \in 1..Len(ws.sent[c]) |-> ws.sent[c][i].message]
    \o TaskMessages(c) \o ws.scheduled

\* The status_update the consumer thread is about to schedule for the entry
\* it has updated, if any.
BeingScheduled ==
  IF consumer_thread.updated_status_info = <<>> THEN <<>>
  ELSE LET updated == consumer_thread.updated_status_info[1]
       IN <<[type |-> "status_update", job_id |-> updated.job_id,
             data |-> BroadcastPayload(updated.info)]>>

\* C38: a connected push-channel client misses no status change. What its
\* initial_state and the status_update messages sent or scheduled after it say
\* last of a job is the job's entry in the status map; every update the
\* consumer applies schedules a status_update carrying it (the thread's next
\* step after the update), every scheduled status_update the event loop
\* starts creates a send for every connected client, every such send is
\* handed to the client's socket, in the order of the updates, and a send
\* that returns leaves the client connected.
C38_ConnectedClientMissesNothing ==
  /\ [](\A c \in WsClients :
          Connected(c)
          => \A j \in DOMAIN job_statuses :
               LET views == ViewsOf(ClientMessages(c) \o BeingScheduled, j)
               IN /\ views # <<>>
                  /\ views[Len(views)] = BroadcastPayload(job_statuses[j]))
  /\ [][/\ (job_statuses' # job_statuses)
           => /\ consumer_thread.updated_status_info = <<>>
              /\ Len(consumer_thread'.updated_status_info) = 1
              /\ LET updated == consumer_thread'.updated_status_info[1]
                 IN /\ updated.info = job_statuses'[updated.job_id]
                    /\ \A j \in DOMAIN job_statuses' \ {updated.job_id} :
                         /\ j \in DOMAIN job_statuses
                         /\ job_statuses'[j] = job_statuses[j]
        /\ (consumer_thread.updated_status_info # <<>>
            /\ consumer_thread'.updated_status_info = <<>>)
           => ws'.scheduled = ws.scheduled \o BeingScheduled
        /\ (ws.scheduled # <<>> /\ ws'.scheduled = Tail(ws.scheduled))
           => \A c \in WsClients :
                Connected(c)
                => TaskMessages(c)' = TaskMessages(c) \o <<Head(ws.scheduled)>>
        /\ (ws.tasks # <<>> /\ ws'.tasks = Tail(ws.tasks))
           => LET task == Head(ws.tasks)
              IN /\ Len(ws'.sent[task.websocket])
                      = Len(ws.sent[task.websocket]) + 1
                 /\ ws'.sent[task.websocket][Len(ws'.sent[task.websocket])]
                      = [message |-> task.message, outcome |-> "pending"]
        /\ \A c \in WsClients :
             (Connected(c) /\ ~Connected(c)')
             => \/ ws'.pc[c] = "gone"
                \/ \E i \in 1..Len(ws.sent[c]) :
                     /\ ws.sent[c][i].outcome = "pending"
                     /\ ws'.sent[c][i].outcome \notin {"sent", "pending"}
        /\ \A c \in WsClients :
             (Connected(c) /\ ClientMessages(c)' # ClientMessages(c))
             => \E m \in {BeingScheduled[i] : i \in 1..Len(BeingScheduled)} :
                  ClientMessages(c)' = Append(ClientMessages(c), m)]_vars

\* Two connected clients, every send to which has returned: one was accepted
\* before the consumer applied an update and was sent both updates
\* afterwards, the other one was accepted after the first update, which its
\* initial_state contains, and was sent the second.
C38_Witness ==
  /\ Connected("c1")
  /\ Connected("c2")
  /\ ws.scheduled = <<>>
  /\ ws.tasks = <<>>
  /\ \A c \in WsClients :
       \A i \in 1..Len(ws.sent[c]) : ws.sent[c][i].outcome = "sent"
  /\ Len(ws.sent["c1"]) = 3
  /\ ws.sent["c1"][1].message.jobs[1].status = "requested"
  /\ ws.sent["c1"][2].message.data.status = "RUNNING"
  /\ ws.sent["c1"][3].message.data.status = "COMPLETE"
  /\ Len(ws.sent["c2"]) = 2
  /\ ws.sent["c2"][1].message.jobs[1].status = "RUNNING"
  /\ ws.sent["c2"][2].message.data.status = "COMPLETE"
  /\ job_statuses[1].status = "COMPLETE"

\* C39: a record of job J that the consumer thread handles changes the entry
\* of J only: the entries of the other jobs stay as they are, no entry of
\* another job appears, and in J's entry job_id, requested_at and details keep
\* their values, as does percentage when the record is a job_failed and
\* error_details when it is not.
C39_OnlyTheJobsEntryChanges ==
  [][\A topic \in CONSUMER_TOPICS :
       ConsumeRecord(topic)
       => LET message == HeldRecord
              J == Get(message, "job_id", 0)
              kept == {"job_id", "requested_at", "details"}
                        \cup (IF Get(message, "event_type", "None")
                                   = "job_failed"
                              THEN {"percentage"} ELSE {"error_details"})
          IN /\ \A j \in DOMAIN job_statuses \ {J} :
                  /\ j \in DOMAIN job_statuses'
                  /\ job_statuses'[j] = job_statuses[j]
             /\ DOMAIN job_statuses' \subseteq DOMAIN job_statuses \cup {J}
             /\ J \in DOMAIN job_statuses
                => /\ J \in DOMAIN job_statuses'
                   /\ DOMAIN job_statuses[J] \subseteq DOMAIN job_statuses'[J]
                   /\ \A k \in kept \cap DOMAIN job_statuses[J] :
                        job_statuses'[J][k] = job_statuses[J][k]]_vars

\* The consumer handled a progress record and then a job_failed of job 1
\* next to the entry of another job: the entry of job 1 is FAILED with the
\* percentage of the progress record and the fields of the POST handler, and
\* the other entry is as it was.
C39_Witness ==
  /\ 1 \in DOMAIN job_statuses
  /\ job_statuses[1].status = "FAILED"
  /\ Get(job_statuses[1], "percentage", 0) = Pct(50)
  /\ job_statuses[1].requested_at = "ts"
  /\ job_statuses[1].details = "Job request sent to Kafka."
  /\ ForeignJobId \in DOMAIN job_statuses
  /\ job_statuses[ForeignJobId] = OtherJobRunning[ForeignJobId]

\* C40: with two loader replicas at work on the loading_requested events of
\* different jobs against one database, the persisted rows have pairwise
\* different (lower(title), lower(company_name)) keys.
C40_ReplicasStoreNoDuplicateKeys ==
  Cardinality({<<Lower(row.title), Lower(row.company_name)>> : row \in db})
    = Cardinality(db)

====
